---- MODULE Spec2Model ----
\* Budget tracking, report aggregation, persistence, settings, backups and
\* undo history of the expense manager: models/budget.py, models/expense.py,
\* managers/budget_manager.py, managers/expense_manager.py,
\* managers/undo_manager.py, reports/report_generator.py,
\* models/statistical_summary.py, persistence/data_manager.py.
\*
\* Money is in whole Lek.  A percentage x / y * 100 is kept as the exact
\* fraction (x * 100) / y and compared with a threshold T by cross
\* multiplication, so no rounding is modelled.  A datetime is a tick count:
\* tick = day * TicksPerDay + time of day, and datetime.date() is tick \div
\* TicksPerDay.  Every month of the model calendar has DaysPerMonth days.
EXTENDS Integers, Sequences, FiniteSets, TLC

VARIABLES
    evBudget,      \* SpecEval: the Budget object the evaluator is called on
    expenses,      \* ExpenseManager._expenses, values in insertion order
                   \* (SpecStore: its entries, key and value)
    budgets,       \* BudgetManager._budgets, budget_id -> Budget
    nextId,        \* the next fresh expense_id (uuid4 in the code)
    expense_file,  \* rows of expenses.csv
    budget_file,   \* rows of budgets.csv
    rpExpenses,    \* SpecReport: the expense list handed to the ReportGenerator
    rpBudgets,     \* SpecReport: the budget list handed to the ReportGenerator
    ret,           \* the last call: its name, arguments and returned value
    disk,          \* the data directory: path -> the file there
    pc,            \* the position of a save of the DataManager in its code
    settings_file, \* settings.json: the JSON document stored in it
    _settings_cache, \* DataManager._settings_cache
    backups,       \* the backups directory: its ZIP files
    _undo_stack,   \* UndoManager._undo_stack, the last action at the end
    _redo_stack,   \* UndoManager._redo_stack, the last action at the end
    _callbacks     \* UndoManager._callbacks: the action types with a handler

vars ==
    <<evBudget, expenses, budgets, nextId, expense_file, budget_file,
      rpExpenses, rpBudgets, ret, disk, pc, settings_file, _settings_cache,
      backups, _undo_stack, _redo_stack, _callbacks>>

\* The state of the settings, the backups and the undo history
session ==
    <<settings_file, _settings_cache, backups, _undo_stack, _redo_stack,
      _callbacks>>

\* ret before any call: every value of ret names its operation in op.
NoCall ==
    [op |-> "none"]

\* ---------------------------------------------------------------- bounds
MaxExpenses ==
    2
MaxReportExpenses ==
    2
DaysPerMonth ==
    2
NumMonths ==
    2
TicksPerDay ==
    2

\* ------------------------------------------------------ program constants
WARNING_THRESHOLD ==
    80
CRITICAL_THRESHOLD ==
    95
DEFAULT_ROLLOVER_CAP_ARG ==
    100
MAX_AMOUNT ==
    10000000
\* n of get_top_vendors in the monthly and in the annual report
TOP_VENDORS_MONTHLY ==
    10
TOP_VENDORS_ANNUAL ==
    20

\* ----------------------------------------------------------- input sets
Categories ==
    {"Supplies", "Equipment"}
BudgetAmounts ==
    {0, 100, 200}
ThresholdPairs ==
    {<<80, 95>>, <<50, 90>>}
RolloverCaps ==
    {50, 100}
PreviousRollovers ==
    {0, 100}
SpentValues ==
    {0, 50, 85, 95, 100, 160, 250}
ExpenseAmounts ==
    {15, 80}
PeriodTypes ==
    {"monthly", "quarterly"}

\* ------------------------------------------------------------- calendar
MaxTick ==
    NumMonths * DaysPerMonth * TicksPerDay - 1
Ticks ==
    0..MaxTick
Months ==
    0..(NumMonths - 1)
DateOf(t) ==
    t \div TicksPerDay
Midnight(day) ==
    day * TicksPerDay
MonthStart(m) ==
    Midnight(m * DaysPerMonth)
MonthOf(t) ==
    DateOf(t) \div DaysPerMonth

Min(a, b) ==
    IF a <= b THEN a ELSE b

\* ------------------------------------------------------ models/budget.py
PeriodMonths(period_type) ==
    CASE period_type = "monthly" -> 1
      [] period_type = "quarterly" -> 3
      [] period_type = "yearly" -> 12
      [] OTHER -> 1

\* period_start + relativedelta(months = n, days = -1)
period_end(b) ==
    b.period_start + PeriodMonths(b.period_type) * DaysPerMonth * TicksPerDay
        - TicksPerDay

effective_budget(b) ==
    IF b.rollover_enabled THEN b.amount + b.previous_rollover ELSE b.amount

Pct(n, d) ==
    [num |-> n, den |-> d]
PctGE(p, T) ==
    p.num >= T * p.den
PctLT(p, T) ==
    p.num < T * p.den

get_used_percentage(b) ==
    IF b.amount <= 0 THEN Pct(0, 1) ELSE Pct(b.spent * 100, b.amount)

get_remaining(b) ==
    effective_budget(b) - b.spent

Budget_calculate_rollover(b, spent) ==
    IF ~b.rollover_enabled THEN 0
    ELSE LET remaining == effective_budget(b) - spent
             max_rollover == (b.amount * b.rollover_cap_percent) \div 100
         IN  IF remaining <= 0 THEN 0 ELSE Min(remaining, max_rollover)

Budget_get_status(b, spent) ==
    LET effective == effective_budget(b)
        percentage == IF effective > 0 THEN Pct(spent * 100, effective)
                      ELSE Pct(0, 1)
    IN  IF PctGE(percentage, 100) THEN "exceeded"
        ELSE IF PctGE(percentage, b.critical_threshold) THEN "critical"
        ELSE IF PctGE(percentage, b.warning_threshold) THEN "warning"
        ELSE "ok"

\* Budget.__init__ / __post_init__: allow_rollover is synced with
\* rollover_enabled, spent and rollover_amount start at 0.
Budget(id, cat, amt, ptype, pstart, thresholds, enabled, cap, prev) ==
    [budget_id |-> id, category |-> cat, amount |-> amt,
     period_type |-> ptype, period_start |-> pstart,
     warning_threshold |-> thresholds[1], critical_threshold |-> thresholds[2],
     rollover_enabled |-> enabled, rollover_cap_percent |-> cap,
     previous_rollover |-> prev,
     spent |-> 0, rollover_amount |-> 0, allow_rollover |-> enabled]

\* ------------------------------------------- managers/budget_manager.py
manager_warning_threshold ==
    WARNING_THRESHOLD
manager_critical_threshold ==
    CRITICAL_THRESHOLD

\* get_budget_status with the first test written as == 100.
get_budget_status_eq100(b) ==
    IF b.amount <= 0 THEN "under_budget"
    ELSE LET percentage == get_used_percentage(b)
         IN  IF percentage.num = 100 * percentage.den THEN "over_budget"
             ELSE IF PctGE(percentage, manager_critical_threshold) THEN "critical"
             ELSE IF PctGE(percentage, manager_warning_threshold) THEN "warning"
             ELSE "under_budget"

get_budget_status(b) ==
    IF b.amount <= 0 THEN "under_budget"
    ELSE LET percentage == get_used_percentage(b)
         IN  IF PctGE(percentage, 100) THEN "over_budget"
             ELSE IF PctGE(percentage, manager_critical_threshold) THEN "critical"
             ELSE IF PctGE(percentage, manager_warning_threshold) THEN "warning"
             ELSE "under_budget"

calculate_rollover(b, rollover_cap_percentage) ==
    IF ~b.allow_rollover THEN 0
    ELSE LET remaining == get_remaining(b)
             max_rollover == (b.amount * rollover_cap_percentage) \div 100
         IN  IF remaining <= 0 THEN 0 ELSE Min(remaining, max_rollover)

\* dataclass __init__: a keyword that is no field of the class, or a field
\* without default that is not passed, raises TypeError.
TypeError ==
    [raised |-> TRUE, error |-> "TypeError"]

DataclassInit(kwargs, fields, required, defaults) ==
    IF ~(DOMAIN kwargs \subseteq fields) \/ ~(required \subseteq DOMAIN kwargs)
    THEN TypeError
    ELSE [raised |-> FALSE,
          value |-> [f \in fields |->
                        IF f \in DOMAIN kwargs THEN kwargs[f] ELSE defaults[f]]]

BudgetFields ==
    {"category", "amount", "period_type", "period_start", "budget_id",
     "subcategory", "warning_threshold", "critical_threshold",
     "rollover_enabled", "rollover_cap_percent", "previous_rollover", "notes",
     "is_active", "spent", "rollover_amount", "allow_rollover", "created_at",
     "updated_at"}
BudgetRequired ==
    {"category", "amount", "period_type", "period_start"}
BudgetDefaults ==
    [f \in BudgetFields |->
        CASE f = "warning_threshold" -> 80
          [] f = "critical_threshold" -> 95
          [] f = "rollover_cap_percent" -> 50
          [] f \in {"previous_rollover", "spent", "rollover_amount"} -> 0
          [] f \in {"rollover_enabled", "allow_rollover"} -> FALSE
          [] f = "is_active" -> TRUE
          [] OTHER -> ""]

\* ------------------------------------------------------ models/expense.py
Expense(id, amount, date, category) ==
    [expense_id |-> id, amount |-> amount, date |-> date,
     category |-> category, is_deleted |-> FALSE]

\* to_dict: the date column is strftime('%Y-%m-%d'), the day without the time
Expense_to_dict(e) ==
    [expense_id |-> e.expense_id, amount |-> e.amount,
     date |-> DateOf(e.date), category |-> e.category,
     is_deleted |-> e.is_deleted]

soft_delete(e) ==
    [e EXCEPT !.is_deleted = TRUE]

\* Budget.to_dict: spent, rollover_amount and allow_rollover are no columns
Budget_to_dict(b) ==
    [budget_id |-> b.budget_id, category |-> b.category, amount |-> b.amount,
     period_type |-> b.period_type, period_start |-> DateOf(b.period_start),
     warning_threshold |-> b.warning_threshold,
     critical_threshold |-> b.critical_threshold,
     rollover_enabled |-> b.rollover_enabled,
     rollover_cap_percent |-> b.rollover_cap_percent,
     previous_rollover |-> b.previous_rollover]

\* ------------------------------------------- managers/budget_manager.py
\* calculate_spent comparing the datetimes instead of the dates.
RECURSIVE calculate_spent_no_date(_, _, _, _)
calculate_spent_no_date(b, exps, i, total) ==
    IF i > Len(exps) THEN total
    ELSE LET expense == exps[i]
         IN  IF /\ ~expense.is_deleted
                /\ expense.category = b.category
                /\ b.period_start <= expense.date
                /\ expense.date <= period_end(b)
             THEN calculate_spent_no_date(b, exps, i + 1, total + expense.amount)
             ELSE calculate_spent_no_date(b, exps, i + 1, total)

RECURSIVE calculate_spent_loop(_, _, _, _)
calculate_spent_loop(b, exps, i, total) ==
    IF i > Len(exps) THEN total
    ELSE LET expense == exps[i]
             expense_date == DateOf(expense.date)
             start_date == DateOf(b.period_start)
             end_date == DateOf(period_end(b))
         IN  IF expense.is_deleted
             THEN calculate_spent_loop(b, exps, i + 1, total)
             ELSE IF expense.category # b.category
             THEN calculate_spent_loop(b, exps, i + 1, total)
             ELSE IF start_date <= expense_date /\ expense_date <= end_date
             THEN calculate_spent_loop(b, exps, i + 1, total + expense.amount)
             ELSE calculate_spent_loop(b, exps, i + 1, total)

calculate_spent(b, exps) ==
    calculate_spent_loop(b, exps, 1, 0)

\* The index in _budgets of the first budget of the category whose period
\* holds today, 0 for None.
get_current_budget_for_category(bs, category, today) ==
    LET hits == {i \in DOMAIN bs :
                    /\ bs[i].category = category
                    /\ DateOf(bs[i].period_start) <= today
                    /\ today <= DateOf(period_end(bs[i]))}
    IN  IF hits = {} THEN 0 ELSE CHOOSE i \in hits : \A j \in hits : i <= j

NoAlert ==
    [type |-> "None"]

check_expense_against_budget(bs, expense, exps, today) ==
    LET i == get_current_budget_for_category(bs, expense.category, today)
    IN  IF i = 0 THEN NoAlert
        ELSE LET budget == bs[i]
                 current_spent == calculate_spent(budget, exps)
                 new_spent == current_spent + expense.amount
                 new_percentage == IF budget.amount > 0
                                   THEN Pct(new_spent * 100, budget.amount)
                                   ELSE Pct(0, 1)
                 old_percentage == get_used_percentage(budget)
             IN  IF PctGE(new_percentage, 100) /\ PctLT(old_percentage, 100)
                 THEN [type |-> "over_budget", category |-> budget.category,
                       percentage |-> new_percentage]
                 ELSE IF /\ PctGE(new_percentage, manager_critical_threshold)
                         /\ PctLT(old_percentage, manager_critical_threshold)
                 THEN [type |-> "critical", category |-> budget.category,
                       percentage |-> new_percentage]
                 ELSE IF /\ PctGE(new_percentage, manager_warning_threshold)
                         /\ PctLT(old_percentage, manager_warning_threshold)
                 THEN [type |-> "warning", category |-> budget.category,
                       percentage |-> new_percentage]
                 ELSE NoAlert

\* Budget(...) is called with period_end, which is a property and no field,
\* and without period_type.
create_next_period_budget(b, include_rollover, rollover_cap_percentage) ==
    LET next_start == period_end(b) + TicksPerDay
        next_end == next_start + DaysPerMonth * TicksPerDay - TicksPerDay
        rollover == IF include_rollover
                    THEN calculate_rollover(b, rollover_cap_percentage)
                    ELSE 0
    IN  DataclassInit([category |-> b.category, amount |-> b.amount,
                       period_start |-> next_start, period_end |-> next_end,
                       spent |-> 0, notes |-> "",
                       allow_rollover |-> b.allow_rollover,
                       rollover_amount |-> rollover],
                      BudgetFields, BudgetRequired, BudgetDefaults)

\* ------------------------------------- models/statistical_summary.py
StatisticalSummaryFields ==
    {"period_start", "period_end", "total_amount", "expense_count",
     "average_amount", "median_amount", "min_amount", "max_amount",
     "std_deviation", "by_category", "by_subcategory", "by_vendor",
     "by_payment_method", "by_month", "by_day_of_week", "trend_data",
     "comparison_data", "top_expenses", "recurring_total", "recurring_count",
     "budget_status"}
StatisticalSummaryRequired ==
    {"period_start", "period_end"}
StatisticalSummaryDefaults ==
    [f \in StatisticalSummaryFields |->
        IF f \in {"total_amount", "expense_count", "average_amount",
                  "median_amount", "min_amount", "max_amount", "std_deviation",
                  "recurring_total", "recurring_count"}
        THEN 0 ELSE <<>>]

StatisticalSummary(kwargs) ==
    DataclassInit(kwargs, StatisticalSummaryFields, StatisticalSummaryRequired,
                  StatisticalSummaryDefaults)

\* --------------------------------------- reports/report_generator.py
RECURSIVE SumAmounts(_)
SumAmounts(exps) ==
    IF exps = <<>> THEN 0 ELSE Head(exps).amount + SumAmounts(Tail(exps))

RECURSIVE SumSquares(_)
SumSquares(exps) ==
    IF exps = <<>> THEN 0
    ELSE Head(exps).amount * Head(exps).amount + SumSquares(Tail(exps))

AmountsOf(exps) ==
    {exps[i].amount : i \in DOMAIN exps}
MinAmount(exps) ==
    CHOOSE a \in AmountsOf(exps) : \A b \in AmountsOf(exps) : a <= b
MaxAmount(exps) ==
    CHOOSE a \in AmountsOf(exps) : \A b \in AmountsOf(exps) : a >= b
DatesOf(exps) ==
    {exps[i].date : i \in DOMAIN exps}

\* np.median as the fraction (lower middle + upper middle) / 2: the k-th
\* smallest amount is the least a with at least k amounts <= a.
KthAmount(exps, k) ==
    CHOOSE a \in AmountsOf(exps) :
        /\ Cardinality({i \in DOMAIN exps : exps[i].amount <= a}) >= k
        /\ \A b \in AmountsOf(exps) :
              Cardinality({i \in DOMAIN exps : exps[i].amount <= b}) >= k
                  => a <= b
MedianAmount(exps) ==
    LET n == Len(exps)
    IN  Pct(KthAmount(exps, (n + 1) \div 2) + KthAmount(exps, (n \div 2) + 1), 2)

\* np.std is the square root of the population variance; the variance
\* (n * sum of squares - square of the sum) / n^2 is what is kept here.
VarianceOfAmounts(exps) ==
    LET n == Len(exps)
    IN  Pct(n * SumSquares(exps) - SumAmounts(exps) * SumAmounts(exps), n * n)

\* Both calls of StatisticalSummary pass category_totals,
\* payment_method_totals, date_from and date_to and pass neither
\* period_start nor period_end.
calculate_basic_stats(exps) ==
    IF exps = <<>>
    THEN StatisticalSummary(
             [total_amount |-> 0, average_amount |-> 0, min_amount |-> 0,
              max_amount |-> 0, expense_count |-> 0, category_totals |-> <<>>,
              payment_method_totals |-> <<>>, date_from |-> "None",
              date_to |-> "None"])
    ELSE StatisticalSummary(
             [total_amount |-> SumAmounts(exps),
              average_amount |-> Pct(SumAmounts(exps), Len(exps)),
              min_amount |-> MinAmount(exps), max_amount |-> MaxAmount(exps),
              expense_count |-> Len(exps),
              category_totals |->
                  [c \in {exps[i].category : i \in DOMAIN exps} |->
                      LET InCat(e) == e.category = c
                      IN  SumAmounts(SelectSeq(exps, InCat))],
              payment_method_totals |-> <<>>,
              date_from |-> CHOOSE d \in DatesOf(exps) :
                                \A x \in DatesOf(exps) : d <= x,
              date_to |-> CHOOSE d \in DatesOf(exps) :
                              \A x \in DatesOf(exps) : d >= x,
              median_amount |-> MedianAmount(exps),
              std_deviation |-> IF Len(exps) > 1 THEN VarianceOfAmounts(exps)
                                ELSE Pct(0, 1)])

\* compare_periods, lines 507-514: the records of one period; is_deleted
\* is not looked at.
period_expenses(exps, period_start, period_end_) ==
    LET InPeriod(e) == period_start <= e.date /\ e.date <= period_end_
    IN  SelectSeq(exps, InPeriod)

compare_periods(exps, p1_start, p1_end, p2_start, p2_end) ==
    LET stats1 == calculate_basic_stats(period_expenses(exps, p1_start, p1_end))
        stats2 == calculate_basic_stats(period_expenses(exps, p2_start, p2_end))
    IN  IF stats1.raised THEN stats1
        ELSE IF stats2.raised THEN stats2
        ELSE LET amount_change == stats2.value.total_amount
                                      - stats1.value.total_amount
                 count_change == stats2.value.expense_count
                                     - stats1.value.expense_count
             IN  [raised |-> FALSE,
                  value |->
                      [period1 |-> stats1.value, period2 |-> stats2.value,
                       amount_change |-> amount_change,
                       amount_change_pct |->
                           IF stats1.value.total_amount > 0
                           THEN Pct(amount_change * 100,
                                    stats1.value.total_amount)
                           ELSE Pct(0, 1),
                       count_change |-> count_change,
                       count_change_pct |->
                           IF stats1.value.expense_count > 0
                           THEN Pct(count_change * 100,
                                    stats1.value.expense_count)
                           ELSE Pct(0, 1)]]

\* The last instant of a month: (month_start + 1 month) - 1 second.
MonthEnd(m) ==
    MonthStart(m + 1) - 1

compare_months(exps, month1, month2) ==
    compare_periods(exps, MonthStart(month1), MonthEnd(month1),
                    MonthStart(month2), MonthEnd(month2))

budget_vs_actual_entry(exps, budget) ==
    LET Matches(e) == /\ e.category = budget.category
                      /\ budget.period_start <= e.date
                      /\ e.date <= period_end(budget)
                      /\ ~e.is_deleted
        actual == SumAmounts(SelectSeq(exps, Matches))
        variance == budget.amount - actual
    IN  [category |-> budget.category, budget |-> budget.amount,
         actual |-> actual, variance |-> variance,
         variance_percentage |-> IF budget.amount > 0
                                 THEN Pct(variance * 100, budget.amount)
                                 ELSE Pct(0, 1),
         used_percentage |-> IF budget.amount > 0
                             THEN Pct(actual * 100, budget.amount)
                             ELSE Pct(0, 1),
         status |-> IF actual > budget.amount THEN "over" ELSE "under",
         period_start |-> budget.period_start,
         period_end |-> period_end(budget)]

get_budget_vs_actual(exps, bs) ==
    [i \in DOMAIN bs |-> budget_vs_actual_entry(exps, bs[i])]

\* The report dictionary is built entry by entry: 'summary' is the first
\* call, and an exception of any call leaves the function.
generate_monthly_report(exps, bs, month) ==
    LET InMonth(e) == /\ MonthStart(month) <= e.date
                      /\ e.date <= MonthEnd(month)
                      /\ ~e.is_deleted
        month_expenses == SelectSeq(exps, InMonth)
        summary == calculate_basic_stats(month_expenses)
        vs_previous_month == compare_months(exps, month - 1, month)
    IN  IF summary.raised THEN summary
        ELSE IF vs_previous_month.raised THEN vs_previous_month
        ELSE [raised |-> FALSE,
              value |->
                  [period |-> [start |-> MonthStart(month),
                               end |-> MonthEnd(month)],
                   summary |-> summary.value,
                   budget_status |-> get_budget_vs_actual(month_expenses, bs),
                   vs_previous_month |-> vs_previous_month.value]]

\* The model calendar is one year long: year 0 is months 0..NumMonths-1.
YearStart(year) ==
    MonthStart(year * NumMonths)
YearEnd(year) ==
    MonthStart((year + 1) * NumMonths) - 1

generate_annual_report(exps, bs, year) ==
    LET InYear(e) == /\ YearStart(year) <= e.date
                     /\ e.date <= YearEnd(year)
                     /\ ~e.is_deleted
        year_expenses == SelectSeq(exps, InYear)
        summary == calculate_basic_stats(year_expenses)
    IN  IF summary.raised THEN summary
        ELSE [raised |-> FALSE,
              value |-> [period |-> [year |-> year, start |-> YearStart(year),
                                     end |-> YearEnd(year)],
                         summary |-> summary.value]]

\* ------------------------------------------------- specification SpecEval
\* The evaluator functions applied to one Budget object.  The object is any
\* budget that validate_budget accepts (amount >= 0, warning < critical,
\* cap within 0..100); spent is whatever update_budget_spent stored last.
EvalBudgets ==
    { [Budget(1, "Supplies", a, "monthly", 0, th, en, cap, prev)
          EXCEPT !.spent = s] :
        a \in BudgetAmounts, th \in ThresholdPairs, en \in BOOLEAN,
        cap \in RolloverCaps, prev \in PreviousRollovers, s \in {0} }

\* ------------------------------------------ persistence/data_manager.py
\* The files of the data directory and, for each, the temporary file of its
\* save: filepath.with_suffix('.tmp')
TargetFiles ==
    {"expenses.csv", "budgets.csv", "templates.csv", "settings.json"}

with_suffix_tmp(filepath) ==
    CASE filepath = "expenses.csv" -> "expenses.tmp"
      [] filepath = "budgets.csv" -> "budgets.tmp"
      [] filepath = "templates.csv" -> "templates.tmp"
      [] filepath = "settings.json" -> "settings.tmp"

\* A file: the rows written to it so far, and whether the writer wrote all
\* of them and closed it
NoFile ==
    [exists |-> FALSE, rows |-> <<>>, complete |-> FALSE]

File(rows, complete) ==
    [exists |-> TRUE, rows |-> rows, complete |-> complete]

NoSave ==
    [step |-> "idle", file |-> "", df |-> <<>>, old |-> NoFile]

\* No save is running and the data directory is the one ensure_data_dir
\* creates: every data file holds an empty collection, no temporary file
SaveIdle ==
    /\ disk = [p \in TargetFiles \cup {with_suffix_tmp(f) : f \in TargetFiles}
                   |-> IF p \in TargetFiles THEN File(<<>>, TRUE) ELSE NoFile]
    /\ pc = NoSave

\* No settings document, no cached settings, no backup, and the
\* UndoManager as its constructor leaves it
SessionIdle ==
    /\ settings_file = [exists |-> FALSE, valid |-> FALSE, doc |-> {}]
    /\ _settings_cache = <<>>
    /\ backups = <<>>
    /\ _undo_stack = <<>>
    /\ _redo_stack = <<>>
    /\ _callbacks = {}

StoreIdle ==
    /\ expenses = <<>>
    /\ budgets = <<>>
    /\ nextId = 1
    /\ expense_file = <<>>
    /\ budget_file = <<>>

ReportIdle ==
    /\ rpExpenses = <<>>
    /\ rpBudgets = <<>>

EvalInit ==
    /\ evBudget \in EvalBudgets
    /\ ret = NoCall
    /\ StoreIdle
    /\ ReportIdle
    /\ SaveIdle
    /\ SessionIdle

EvalFrame ==
    UNCHANGED <<disk, pc, expenses, budgets, nextId, expense_file, budget_file,
                rpExpenses, rpBudgets, session>>

\* update_budget_spent, seen from the budget: budget.spent = calculate_spent(...)
EvUpdateSpent(s) ==
    /\ evBudget' = [evBudget EXCEPT !.spent = s]
    /\ ret' = [op |-> "update_budget_spent", previous |-> evBudget.spent,
               value |-> s]
    /\ EvalFrame

EvGetBudgetStatus ==
    /\ ret' = [op |-> "get_budget_status", value |-> get_budget_status(evBudget)]
    /\ UNCHANGED evBudget
    /\ EvalFrame

EvBudgetGetStatus(s) ==
    /\ ret' = [op |-> "Budget.get_status", spent |-> s,
               value |-> Budget_get_status(evBudget, s)]
    /\ UNCHANGED evBudget
    /\ EvalFrame

EvCalculateRollover(cap) ==
    /\ ret' = [op |-> "calculate_rollover", cap |-> cap,
               value |-> calculate_rollover(evBudget, cap)]
    /\ UNCHANGED evBudget
    /\ EvalFrame

EvBudgetCalculateRollover(s) ==
    /\ ret' = [op |-> "Budget.calculate_rollover", spent |-> s,
               value |-> Budget_calculate_rollover(evBudget, s)]
    /\ UNCHANGED evBudget
    /\ EvalFrame

EvalNext ==
    \/ \E s \in SpentValues : EvUpdateSpent(s)
    \/ EvGetBudgetStatus
    \/ \E s \in SpentValues : EvBudgetGetStatus(s)
    \/ \E cap \in {DEFAULT_ROLLOVER_CAP_ARG} \cup RolloverCaps :
          EvCalculateRollover(cap)
    \/ \E s \in SpentValues : EvBudgetCalculateRollover(s)

SpecEval ==
    EvalInit /\ [][EvalNext]_vars

\* ------------------------------------------------ claims under SpecEval
\* UNDER_BUDGET < WARNING < CRITICAL < OVER_BUDGET, for the names of
\* BudgetStatus and for the names Budget.get_status returns.
Severity(status) ==
    CASE status \in {"under_budget", "ok"} -> 0
      [] status = "warning" -> 1
      [] status = "critical" -> 2
      [] status \in {"over_budget", "exceeded"} -> 3

\* The status the specification gives: percentage = spent / amount * 100
\* against the budget's own thresholds.
StatedSeverity(b, spent) ==
    LET percentage == Pct(spent * 100, b.amount)
    IN  IF PctLT(percentage, b.warning_threshold) THEN 0
        ELSE IF PctLT(percentage, b.critical_threshold) THEN 1
        ELSE IF PctLT(percentage, 100) THEN 2
        ELSE 3

\* C1: for a budget with amount > 0 the status returned by get_budget_status
\* and by Budget.get_status is the one that spent / amount * 100 selects
\* against that budget's own warning_threshold and critical_threshold.
C1_StatusFromOwnThresholds ==
    evBudget.amount > 0 =>
        /\ ret.op = "get_budget_status" =>
               Severity(ret.value) = StatedSeverity(evBudget, evBudget.spent)
        /\ ret.op = "Budget.get_status" =>
               Severity(ret.value) = StatedSeverity(evBudget, ret.spent)

\* The rollover the specification gives for a budget that has spent `spent`.
StatedRollover(b, spent) ==
    LET remaining == effective_budget(b) - spent
    IN  IF ~b.rollover_enabled \/ remaining <= 0 THEN 0
        ELSE Min(remaining, (b.amount * b.rollover_cap_percent) \div 100)

\* C7: calculateRollover(budget) is 0 when rollover is disabled or nothing
\* remains, otherwise min(remaining, amount * the budget's cap % / 100); it
\* is never negative and never above amount * cap % / 100.
C7_RolloverCappedByBudgetCap ==
    /\ (ret.op = "calculate_rollover" /\ ret.cap = DEFAULT_ROLLOVER_CAP_ARG) =>
           /\ ret.value = StatedRollover(evBudget, evBudget.spent)
           /\ ret.value >= 0
           /\ ret.value * 100 <= evBudget.amount * evBudget.rollover_cap_percent
    /\ ret.op = "Budget.calculate_rollover" =>
           /\ ret.value = StatedRollover(evBudget, ret.spent)
           /\ ret.value >= 0
           /\ ret.value * 100 <= evBudget.amount * evBudget.rollover_cap_percent

\* C9: for a budget with amount > 0, a step that stores a spent value at
\* least as large as the previous one never lowers the severity of
\* get_budget_status nor of Budget.get_status.
C9_StatusMonotonicInSpent ==
    [][(evBudget.amount > 0 /\ evBudget'.spent >= evBudget.spent) =>
           /\ Severity(get_budget_status(evBudget'))
                  >= Severity(get_budget_status(evBudget))
           /\ Severity(Budget_get_status(evBudget', evBudget'.spent))
                  >= Severity(Budget_get_status(evBudget, evBudget.spent))]_vars

\* A larger spent value was stored and the status rose with it.
C9_Witness ==
    /\ ret.op = "update_budget_spent"
    /\ evBudget.amount > 0
    /\ ret.previous < ret.value
    /\ get_budget_status([evBudget EXCEPT !.spent = ret.previous]) = "warning"
    /\ get_budget_status(evBudget) = "over_budget"

\* ----------------------------------------------------- specification Spec
\* The expense store and the budget store of one running application.
Days ==
    0..(NumMonths * DaysPerMonth - 1)

\* utils/validators.py validate_expense, for the fields of the model: the
\* amount is at least MIN_AMOUNT (0.01, so at least 1 in whole Lek) and at
\* most MAX_AMOUNT, the date is not after now.
validate_expense(e, now) ==
    (IF e.amount < 1 \/ e.amount > MAX_AMOUNT THEN {"amount"} ELSE {})
        \cup (IF e.date > now THEN {"date"} ELSE {})

save_expenses(exps) ==
    [i \in DOMAIN exps |-> Expense_to_dict(exps[i])]

save_budgets(bs) ==
    [i \in DOMAIN bs |-> Budget_to_dict(bs[i])]

IndexOfExpense(exps, id) ==
    IF \E i \in DOMAIN exps : exps[i].expense_id = id
    THEN CHOOSE i \in DOMAIN exps : exps[i].expense_id = id
    ELSE 0

RemoveAt(seq, i) ==
    SubSeq(seq, 1, i - 1) \o SubSeq(seq, i + 1, Len(seq))

\* The two monthly budgets of one category, as load_budgets builds them
\* from budgets.csv: spent and rollover_amount are not read from the file.
LoadedBudgets(enabled) ==
    <<Budget(1, "Supplies", 100, "monthly", MonthStart(0), <<80, 95>>,
             enabled, 50, 0),
      Budget(2, "Supplies", 100, "monthly", MonthStart(1), <<80, 95>>,
             enabled, 50, 0)>>

Init ==
    /\ \E enabled \in BOOLEAN : budgets = LoadedBudgets(enabled)
    /\ budget_file = save_budgets(budgets)
    /\ expenses = <<>>
    /\ expense_file = <<>>
    /\ nextId = 1
    /\ ret = NoCall
    /\ evBudget = Budget(1, "Supplies", 0, "monthly", 0, <<80, 95>>, FALSE, 50, 0)
    /\ ReportIdle
    /\ SaveIdle
    /\ SessionIdle

StoreFrame ==
    UNCHANGED <<evBudget, rpExpenses, rpBudgets, session, disk, pc>>

AddExpense(amount, date, category, now) ==
    LET expense == Expense(nextId, amount, date, category)
    IN  /\ nextId <= MaxExpenses
        /\ IF validate_expense(expense, now) # {}
           THEN /\ ret' = [op |-> "add_expense",
                           value |-> "MultipleValidationError"]
                /\ UNCHANGED <<expenses, nextId, expense_file>>
           ELSE /\ expenses' = Append(expenses, expense)
                /\ nextId' = nextId + 1
                /\ expense_file' = save_expenses(expenses')
                /\ ret' = [op |-> "add_expense", value |-> expense.expense_id]
        /\ UNCHANGED <<budgets, budget_file>>
        /\ StoreFrame

DeleteExpense(id, permanent) ==
    LET i == IndexOfExpense(expenses, id)
    IN  /\ IF i = 0
           THEN /\ ret' = [op |-> "delete_expense", value |-> FALSE]
                /\ UNCHANGED <<expenses, expense_file>>
           ELSE /\ expenses' = IF permanent THEN RemoveAt(expenses, i)
                               ELSE [expenses EXCEPT ![i] = soft_delete(@)]
                /\ expense_file' = save_expenses(expenses')
                /\ ret' = [op |-> "delete_expense", value |-> TRUE]
        /\ UNCHANGED <<budgets, budget_file, nextId>>
        /\ StoreFrame

UpdateBudgetSpent(i) ==
    /\ IF i \notin DOMAIN budgets
       THEN /\ ret' = [op |-> "update_budget_spent", value |-> 0]
            /\ UNCHANGED <<budgets, budget_file>>
       ELSE /\ budgets' = [budgets EXCEPT
                              ![i].spent = calculate_spent(budgets[i], expenses)]
            /\ budget_file' = save_budgets(budgets')
            /\ ret' = [op |-> "update_budget_spent", value |-> budgets'[i].spent]
    /\ UNCHANGED <<expenses, nextId, expense_file>>
    /\ StoreFrame

UpdateAllBudgetsSpent ==
    /\ budgets' = [i \in DOMAIN budgets |->
                      [budgets[i] EXCEPT
                          !.spent = calculate_spent(budgets[i], expenses)]]
    /\ budget_file' = save_budgets(budgets')
    /\ ret' = [op |-> "update_all_budgets_spent"]
    /\ UNCHANGED <<expenses, nextId, expense_file>>
    /\ StoreFrame

\* The candidate is an expense entered today that is not in the store yet.
CheckExpenseAgainstBudget(amount, category, today) ==
    LET candidate == Expense(0, amount, Midnight(today), category)
    IN  /\ ret' = [op |-> "check_expense_against_budget",
                   expense |-> candidate,
                   budget |-> get_current_budget_for_category(
                                  budgets, category, today),
                   value |-> check_expense_against_budget(
                                 budgets, candidate, expenses, today)]
        /\ UNCHANGED <<expenses, nextId, expense_file, budgets, budget_file>>
        /\ StoreFrame

CreateNextPeriodBudget(i, cap) ==
    /\ i \in DOMAIN budgets
    /\ ret' = [op |-> "create_next_period_budget", budget |-> i,
               value |-> create_next_period_budget(budgets[i], TRUE, cap)]
    /\ UNCHANGED <<expenses, nextId, expense_file, budgets, budget_file>>
    /\ StoreFrame

ApplyRollover(from, to, cap) ==
    /\ IF from \notin DOMAIN budgets \/ to \notin DOMAIN budgets
       THEN /\ ret' = [op |-> "apply_rollover", value |-> 0]
            /\ UNCHANGED <<budgets, budget_file>>
       ELSE IF budgets[from].category # budgets[to].category
       THEN /\ ret' = [op |-> "apply_rollover", value |-> 0]
            /\ UNCHANGED <<budgets, budget_file>>
       ELSE LET rollover == calculate_rollover(budgets[from], cap)
            IN  /\ ret' = [op |-> "apply_rollover", value |-> rollover]
                /\ IF rollover > 0
                   THEN /\ budgets' = [budgets EXCEPT
                                          ![to].rollover_amount = rollover]
                        /\ budget_file' = save_budgets(budgets')
                   ELSE UNCHANGED <<budgets, budget_file>>
    /\ UNCHANGED <<expenses, nextId, expense_file>>
    /\ StoreFrame

\* The dates the store is driven with: the first day of every month.
EntryDays ==
    {m * DaysPerMonth : m \in Months}

Next ==
    \/ \E amount \in ExpenseAmounts \cup {0}, day \in EntryDays,
          category \in Categories, now \in {0, MaxTick} :
          AddExpense(amount, Midnight(day), category, now)
    \/ \E id \in 1..MaxExpenses, permanent \in BOOLEAN :
          DeleteExpense(id, permanent)
    \/ \E i \in 1..3 : UpdateBudgetSpent(i)
    \/ UpdateAllBudgetsSpent
    \/ \E amount \in ExpenseAmounts, category \in Categories,
          today \in EntryDays :
          CheckExpenseAgainstBudget(amount, category, today)
    \/ \E i \in 1..2, cap \in {DEFAULT_ROLLOVER_CAP_ARG} \cup RolloverCaps :
          CreateNextPeriodBudget(i, cap)
    \/ \E from \in {1, 3}, cap \in {DEFAULT_ROLLOVER_CAP_ARG} \cup RolloverCaps :
          ApplyRollover(from, 2, cap)

Spec ==
    Init /\ [][Next]_vars

\* --------------------------------------------------- claims under Spec
\* The event the specification gives for a candidate amount on a budget
\* whose existing records have spent old_spent: the highest boundary b of
\* 100, critical and warning with old% < b <= new%.
StatedCrossing(b, old_spent, amount) ==
    LET old == Pct(old_spent * 100, b.amount)
        new == Pct((old_spent + amount) * 100, b.amount)
    IN  IF PctLT(old, 100) /\ PctGE(new, 100) THEN "over_budget"
        ELSE IF /\ PctLT(old, manager_critical_threshold)
                /\ PctGE(new, manager_critical_threshold) THEN "critical"
        ELSE IF /\ PctLT(old, manager_warning_threshold)
                /\ PctGE(new, manager_warning_threshold) THEN "warning"
        ELSE "None"

CheckedBudget ==
    budgets[ret.budget]

CheckReturned ==
    /\ ret.op = "check_expense_against_budget"
    /\ ret.budget # 0
    /\ CheckedBudget.amount > 0

\* C4: check_expense_against_budget returns exactly the highest boundary
\* that lies between old% (the spend of the existing records) and new%
\* (that spend plus the candidate), and nothing when there is none.
C4_CrossingFromRecordedSpend ==
    CheckReturned =>
        ret.value.type = StatedCrossing(CheckedBudget,
                                        calculate_spent(CheckedBudget, expenses),
                                        ret.expense.amount)

\* C5: once the spend of the recorded expenses is at or above a boundary,
\* a check before a further addition never reports that boundary again.
C5_NoBoundaryReportedTwice ==
    CheckReturned =>
        LET old == Pct(calculate_spent(CheckedBudget, expenses) * 100,
                       CheckedBudget.amount)
        IN  /\ ret.value.type = "warning" =>
                   PctLT(old, manager_warning_threshold)
            /\ ret.value.type = "critical" =>
                   PctLT(old, manager_critical_threshold)
            /\ ret.value.type = "over_budget" => PctLT(old, 100)

CarryWithinCap(b, carried) ==
    /\ carried >= 0
    /\ carried * 100 <= b.amount * b.rollover_cap_percent

\* C8: along a chain of period budgets every carried-over amount lies
\* between 0 and amount * cap % / 100, the effective budget never exceeds
\* amount * (1 + cap / 100), and the next period's budget is created.
C8_RolloverBounded ==
    /\ \A i \in DOMAIN budgets :
          /\ CarryWithinCap(budgets[i], budgets[i].previous_rollover)
          /\ CarryWithinCap(budgets[i], budgets[i].rollover_amount)
          /\ effective_budget(budgets[i]) * 100
                 <= budgets[i].amount * (100 + budgets[i].rollover_cap_percent)
    /\ ret.op = "create_next_period_budget" =>
          /\ ~ret.value.raised
          /\ CarryWithinCap(budgets[ret.budget], ret.value.value.rollover_amount)

\* ----------------------------------------------- specification SpecReport
\* The ReportGenerator and the evaluator applied to an expense list and a
\* budget list.  The dates are the first and the last instant of every
\* month; the budget is one that validate_budget accepts.
ReportTicks ==
    UNION {{MonthStart(m), MonthEnd(m)} : m \in Months}

ReportExpenses ==
    { [Expense(0, a, t, c) EXCEPT !.is_deleted = d] :
        a \in ExpenseAmounts, t \in ReportTicks, c \in Categories,
        d \in BOOLEAN }

ReportBudgets ==
    { [Budget(1, "Supplies", a, "monthly", MonthStart(m), <<80, 95>>,
              en, 50, IF en THEN 100 ELSE 0) EXCEPT !.spent = s] :
        a \in {0, 100}, m \in Months, en \in BOOLEAN, s \in {0, 100} }

ExpenseLists ==
    UNION { [1..n -> ReportExpenses] : n \in 0..MaxReportExpenses }

\* expense_id is the position in the list
Numbered(exps) ==
    [i \in DOMAIN exps |-> [exps[i] EXCEPT !.expense_id = i]]

ReportInit ==
    /\ \E exps \in ExpenseLists : rpExpenses = Numbered(exps)
    /\ \E b \in ReportBudgets : rpBudgets = <<b>>
    /\ ret = NoCall
    /\ evBudget = Budget(1, "Supplies", 0, "monthly", 0, <<80, 95>>, FALSE, 50, 0)
    /\ StoreIdle
    /\ SaveIdle
    /\ SessionIdle

ReportFrame ==
    UNCHANGED <<evBudget, expenses, budgets, nextId, expense_file,
                budget_file, rpExpenses, rpBudgets, session, disk, pc>>

ActiveOnly(exps) ==
    LET Active(e) == ~e.is_deleted
    IN  SelectSeq(exps, Active)

RpCalculateBasicStats(exps) ==
    /\ ret' = [op |-> "calculate_basic_stats", expenses |-> exps,
               value |-> calculate_basic_stats(exps)]
    /\ ReportFrame

RpCalculateSpent(i) ==
    /\ ret' = [op |-> "calculate_spent", budget |-> i,
               value |-> calculate_spent(rpBudgets[i], rpExpenses)]
    /\ ReportFrame

RpGetBudgetStatus(i) ==
    /\ ret' = [op |-> "get_budget_status", budget |-> i,
               value |-> get_budget_status(rpBudgets[i])]
    /\ ReportFrame

RpBudgetGetStatus(i, spent) ==
    /\ ret' = [op |-> "Budget.get_status", budget |-> i, spent |-> spent,
               value |-> Budget_get_status(rpBudgets[i], spent)]
    /\ ReportFrame

RpGetBudgetVsActual ==
    /\ ret' = [op |-> "get_budget_vs_actual",
               value |-> get_budget_vs_actual(rpExpenses, rpBudgets)]
    /\ ReportFrame

RpGenerateMonthlyReport(month) ==
    /\ ret' = [op |-> "generate_monthly_report", month |-> month,
               value |-> generate_monthly_report(rpExpenses, rpBudgets, month)]
    /\ ReportFrame

RpGenerateAnnualReport(year) ==
    /\ ret' = [op |-> "generate_annual_report", year |-> year,
               value |-> generate_annual_report(rpExpenses, rpBudgets, year)]
    /\ ReportFrame

ReportNext ==
    \/ \E month \in Months : RpGenerateMonthlyReport(month)
    \/ RpGenerateAnnualReport(0)
    \/ \E exps \in {<<>>, ActiveOnly(rpExpenses)} : RpCalculateBasicStats(exps)
    \/ \E i \in DOMAIN rpBudgets : RpCalculateSpent(i)
    \/ \E i \in DOMAIN rpBudgets : RpGetBudgetStatus(i)
    \/ \E i \in DOMAIN rpBudgets :
          \E spent \in {rpBudgets[i].spent,
                        calculate_spent(rpBudgets[i], rpExpenses)} :
              RpBudgetGetStatus(i, spent)
    \/ RpGetBudgetVsActual

SpecReport ==
    ReportInit /\ [][ReportNext]_vars

\* ------------------------------------------------ specification SpecSpent
\* calculate_spent alone, applied to one budget of any period and to every
\* expense list.
SpentBudgets ==
    { Budget(1, "Supplies", 100, ptype, MonthStart(m), <<80, 95>>,
             FALSE, 50, 0) : ptype \in PeriodTypes, m \in Months }

SpentInit ==
    /\ \E exps \in ExpenseLists : rpExpenses = Numbered(exps)
    /\ \E b \in SpentBudgets : rpBudgets = <<b>>
    /\ ret = NoCall
    /\ evBudget = Budget(1, "Supplies", 0, "monthly", 0, <<80, 95>>, FALSE, 50, 0)
    /\ StoreIdle
    /\ SaveIdle
    /\ SessionIdle

SpentNext ==
    \E i \in DOMAIN rpBudgets : RpCalculateSpent(i)

SpecSpent ==
    SpentInit /\ [][SpentNext]_vars

\* ------------------------------------------------ claims under SpecReport
\* C2: a budget with amount <= 0 is reported as under budget by
\* get_budget_status, by Budget.get_status and by the status of its
\* budget-vs-actual entry, and no percentage has a zero denominator.
C2_NonPositiveAmountIsUnderBudget ==
    \A i \in DOMAIN rpBudgets :
        rpBudgets[i].amount <= 0 =>
            /\ (ret.op = "get_budget_status" /\ ret.budget = i) =>
                   ret.value = "under_budget"
            /\ (ret.op = "Budget.get_status" /\ ret.budget = i) =>
                   ret.value = "ok"
            /\ ret.op = "get_budget_vs_actual" =>
                   /\ ret.value[i].status = "under"
                   /\ ret.value[i].used_percentage.den # 0
                   /\ ret.value[i].variance_percentage.den # 0

\* C3: a monthly or annual report is produced, it equals the report of the
\* active records alone, and the records its period comparison aggregates
\* are active records.
C3_ReportsIgnoreSoftDeleted ==
    /\ ret.op = "generate_monthly_report" =>
          /\ ~ret.value.raised
          /\ ret.value = generate_monthly_report(ActiveOnly(rpExpenses),
                                                 rpBudgets, ret.month)
          /\ \A m \in {ret.month - 1, ret.month} :
                period_expenses(rpExpenses, MonthStart(m), MonthEnd(m))
                    = period_expenses(ActiveOnly(rpExpenses), MonthStart(m),
                                      MonthEnd(m))
    /\ ret.op = "generate_annual_report" =>
          /\ ~ret.value.raised
          /\ ret.value = generate_annual_report(ActiveOnly(rpExpenses),
                                                rpBudgets, ret.year)

\* The sum the specification gives: the amounts of the records that are
\* not soft-deleted, have the budget's category and whose day lies within
\* the days of period_start and period_end, both included.
RECURSIVE SumOver(_, _)
SumOver(exps, indices) ==
    IF indices = {} THEN 0
    ELSE LET i == CHOOSE x \in indices : TRUE
         IN  exps[i].amount + SumOver(exps, indices \ {i})

StatedSpent(b, exps) ==
    LET first_day == b.period_start \div TicksPerDay
        last_day == first_day + PeriodMonths(b.period_type) * DaysPerMonth - 1
    IN  SumOver(exps, {i \in DOMAIN exps :
                          /\ ~exps[i].is_deleted
                          /\ exps[i].category = b.category
                          /\ exps[i].date \div TicksPerDay \in first_day..last_day})

\* C6: calculate_spent returns the stated sum, leaves the budget list and
\* the expense list as they were, and a repeated call on the same budget
\* returns the same value.
C6_CalculateSpentIsPureSum ==
    /\ [](ret.op = "calculate_spent" =>
              ret.value = StatedSpent(rpBudgets[ret.budget], rpExpenses))
    /\ [][ret'.op = "calculate_spent" =>
              /\ rpExpenses' = rpExpenses
              /\ rpBudgets' = rpBudgets
              /\ (ret.op = "calculate_spent" /\ ret.budget = ret'.budget) =>
                     ret'.value = ret.value]_vars

\* calculate_spent skipped a soft-deleted record of the budget's category
\* and period and counted a record of the last day's last instant.
C6_Witness ==
    /\ ret.op = "calculate_spent"
    /\ Len(rpExpenses) = 2
    /\ LET b == rpBudgets[ret.budget]
       IN  /\ rpExpenses[1].is_deleted
           /\ rpExpenses[1].category = b.category
           /\ rpExpenses[1].date = b.period_start
           /\ ~rpExpenses[2].is_deleted
           /\ rpExpenses[2].category = b.category
           /\ rpExpenses[2].date = period_end(b) + TicksPerDay - 1
           /\ ret.value = rpExpenses[2].amount

\* C10: calculate_basic_stats on an empty list returns, without raising,
\* a summary whose count, total, mean, median, standard deviation, min and
\* max are 0.
C10_EmptyStatsAreZero ==
    (ret.op = "calculate_basic_stats" /\ ret.expenses = <<>>) =>
        /\ ~ret.value.raised
        /\ \A f \in {"expense_count", "total_amount", "average_amount",
                     "median_amount", "std_deviation", "min_amount",
                     "max_amount"} : ret.value.value[f] = 0

\* ----------------------------------- reports/report_generator.py: trends
\* get_daily_trend with end_date = datetime.now() = now.  An entry is the
\* day key with the amount and the count of the filtered records of that day.
get_daily_trend(exps, days, now) ==
    IF exps = <<>> THEN <<>>
    ELSE LET end_date == now
             start_date == end_date - days * TicksPerDay
             InRange(e) == e.date >= start_date
             filtered == SelectSeq(exps, InRange)
             n == IF start_date > end_date THEN 0
                  ELSE (end_date - start_date) \div TicksPerDay + 1
             bucket(k) ==
                 LET current == start_date + (k - 1) * TicksPerDay
                     OfDay(e) == DateOf(e.date) = DateOf(current)
                     data == SelectSeq(filtered, OfDay)
                 IN  [date |-> DateOf(current), amount |-> SumAmounts(data),
                      count |-> Len(data)]
         IN  [k \in 1..n |-> bucket(k)]

\* get_monthly_trend with end_date = now.  timedelta(days = months * 30)
\* is months calendar months of the model calendar; start_date.replace(day=1)
\* keeps the time of day of start_date.
get_monthly_trend(exps, months, now) ==
    IF exps = <<>> THEN <<>>
    ELSE LET end_date == now
             start_date == end_date - months * DaysPerMonth * TicksPerDay
             InRange(e) == e.date >= start_date
             filtered == SelectSeq(exps, InRange)
             first == MonthStart(MonthOf(start_date)) + (start_date % TicksPerDay)
             month_ticks == DaysPerMonth * TicksPerDay
             n == IF first > end_date THEN 0
                  ELSE (end_date - first) \div month_ticks + 1
             bucket(k) ==
                 LET current == first + (k - 1) * month_ticks
                     OfMonth(e) == MonthOf(e.date) = MonthOf(current)
                     data == SelectSeq(filtered, OfMonth)
                 IN  [month |-> MonthOf(current), amount |-> SumAmounts(data),
                      count |-> Len(data)]
         IN  [k \in 1..n |-> bucket(k)]

\* ------------------------------------------------ specification SpecTrend
\* The two trend functions applied to every expense list, range and clock.
TrendLists ==
    UNION { [1..n -> { Expense(0, a, t, "Supplies") :
                         a \in ExpenseAmounts, t \in ReportTicks }] :
            n \in 0..MaxReportExpenses }

TrendInit ==
    /\ \E exps \in TrendLists : rpExpenses = Numbered(exps)
    /\ rpBudgets = <<>>
    /\ ret = NoCall
    /\ evBudget = Budget(1, "Supplies", 0, "monthly", 0, <<80, 95>>, FALSE, 50, 0)
    /\ StoreIdle
    /\ SaveIdle
    /\ SessionIdle

RpGetDailyTrend(days, now) ==
    /\ ret' = [op |-> "get_daily_trend", days |-> days, now |-> now,
               value |-> get_daily_trend(rpExpenses, days, now)]
    /\ ReportFrame

RpGetMonthlyTrend(months, now) ==
    /\ ret' = [op |-> "get_monthly_trend", months |-> months, now |-> now,
               value |-> get_monthly_trend(rpExpenses, months, now)]
    /\ ReportFrame

TrendNext ==
    \/ \E days \in 1..DaysPerMonth, now \in Ticks : RpGetDailyTrend(days, now)
    \/ \E months \in 1..NumMonths, now \in Ticks :
          RpGetMonthlyTrend(months, now)

SpecTrend ==
    TrendInit /\ [][TrendNext]_vars

\* ------------------------------------------------- claims under SpecTrend
\* The keys of a trend are strictly ascending.
Ascending(keys) ==
    \A k \in 1..(Len(keys) - 1) : keys[k] < keys[k + 1]

\* C11: the daily and the monthly trend return, for any record list (an
\* empty one included), one entry per calendar day / month of the requested
\* range, in ascending key order, with amount 0 and count 0 for a bucket
\* that holds no record.
C11_TrendIsZeroFilled ==
    /\ ret.op = "get_daily_trend" =>
          LET first == DateOf(ret.now - ret.days * TicksPerDay)
              last == DateOf(ret.now)
          IN  /\ Len(ret.value) = last - first + 1
              /\ Ascending([k \in DOMAIN ret.value |-> ret.value[k].date])
              /\ \A k \in DOMAIN ret.value :
                    (\A i \in DOMAIN rpExpenses :
                        DateOf(rpExpenses[i].date) # ret.value[k].date)
                        => ret.value[k].amount = 0 /\ ret.value[k].count = 0
    /\ ret.op = "get_monthly_trend" =>
          LET first == MonthOf(ret.now - ret.months * DaysPerMonth * TicksPerDay)
              last == MonthOf(ret.now)
          IN  /\ Len(ret.value) = last - first + 1
              /\ Ascending([k \in DOMAIN ret.value |-> ret.value[k].month])
              /\ \A k \in DOMAIN ret.value :
                    (\A i \in DOMAIN rpExpenses :
                        MonthOf(rpExpenses[i].date) # ret.value[k].month)
                        => ret.value[k].amount = 0 /\ ret.value[k].count = 0

\* ------------------------------- reports/report_generator.py: breakdowns
\* A defaultdict filled in a loop over the records: its keys in the order
\* in which they were first inserted.
\* The key a breakdown groups a record by: one attribute, or the pair
\* (category, subcategory) of the subcategory breakdown
KeyOf(e, field) ==
    IF field = "subcategory" THEN <<e.category, e.subcategory>> ELSE e[field]

RECURSIVE KeysInOrder(_, _, _)
KeysInOrder(exps, field, seen) ==
    IF exps = <<>> THEN seen
    ELSE LET k == KeyOf(Head(exps), field)
         IN  IF \E j \in DOMAIN seen : seen[j] = k
             THEN KeysInOrder(Tail(exps), field, seen)
             ELSE KeysInOrder(Tail(exps), field, Append(seen, k))

\* One step of result.sort(key = amount, reverse = True) written with
\* entries of equal amount exchanged.
SortInsertBeforeEqual(sorted, entry) ==
    LET before == {j \in DOMAIN sorted : sorted[j].amount > entry.amount}
        p == Cardinality(before)
    IN  SubSeq(sorted, 1, p) \o <<entry>> \o SubSeq(sorted, p + 1, Len(sorted))

\* One step of result.sort(key = amount, reverse = True): the sort is
\* stable, an entry goes behind every entry whose amount is not smaller.
SortInsert(sorted, entry) ==
    LET before == {j \in DOMAIN sorted : sorted[j].amount >= entry.amount}
        p == Cardinality(before)
    IN  SubSeq(sorted, 1, p) \o <<entry>> \o SubSeq(sorted, p + 1, Len(sorted))

RECURSIVE SortByAmountDesc(_, _)
SortByAmountDesc(entries, sorted) ==
    IF entries = <<>> THEN sorted
    ELSE SortByAmountDesc(Tail(entries), SortInsert(sorted, Head(entries)))

\* The body of the breakdowns with the percentage taken as the share of
\* the record count.
breakdown_share_of_count(exps, field) ==
    LET keys == KeysInOrder(exps, field, <<>>)
        entry(k) ==
            LET OfKey(e) == KeyOf(e, field) = k
                data == SelectSeq(exps, OfKey)
            IN  [key |-> k, amount |-> SumAmounts(data), count |-> Len(data),
                 percentage |-> Pct(Len(data) * 100, Len(exps))]
    IN  SortByAmountDesc([j \in DOMAIN keys |-> entry(keys[j])], <<>>)

\* The body shared by the four breakdowns: group the records by key, give
\* every group its share of total_amount, sort by amount descending.
breakdown(exps, field) ==
    LET total_amount == SumAmounts(exps)
        keys == KeysInOrder(exps, field, <<>>)
        entry(k) ==
            LET OfKey(e) == KeyOf(e, field) = k
                data == SelectSeq(exps, OfKey)
            IN  [key |-> k, amount |-> SumAmounts(data), count |-> Len(data),
                 percentage |-> IF total_amount > 0
                                THEN Pct(SumAmounts(data) * 100, total_amount)
                                ELSE Pct(0, 1)]
    IN  SortByAmountDesc([j \in DOMAIN keys |-> entry(keys[j])], <<>>)

get_category_breakdown(exps) ==
    IF exps = <<>> THEN <<>> ELSE breakdown(exps, "category")

\* category = "" stands for None: `if category:` is false for both
get_subcategory_breakdown(exps, category) ==
    LET OfCategory(e) == e.category = category
        filtered == IF category # "" THEN SelectSeq(exps, OfCategory) ELSE exps
    IN  IF exps = <<>> THEN <<>> ELSE breakdown(filtered, "subcategory")

get_top_vendors(exps, n) ==
    IF exps = <<>> THEN <<>>
    ELSE LET result == breakdown(exps, "vendor")
         IN  SubSeq(result, 1, Min(n, Len(result)))

get_payment_method_breakdown(exps) ==
    IF exps = <<>> THEN <<>> ELSE breakdown(exps, "payment_method")

\* -------------------------------------------- specification SpecBreakdown
\* The four breakdowns applied to every short expense list and to lists of
\* one record per vendor, up to one vendor more than the monthly report
\* returns.
BreakdownExpenses ==
    { Expense(0, a, 0, c)
          @@ [vendor |-> v, payment_method |-> p, subcategory |-> sc] :
        a \in ExpenseAmounts, c \in Categories, v \in {1, 2},
        p \in {"Cash", "Debit Card"}, sc \in {"Hair products", "Cleaning"} }

BreakdownLists ==
    UNION { [1..n -> BreakdownExpenses] : n \in 0..MaxReportExpenses }
        \cup { [k \in 1..n |->
                    Expense(0, 15, 0, "Supplies")
                        @@ [vendor |-> k, payment_method |-> "Cash",
                            subcategory |-> "Cleaning"]] :
                 n \in TOP_VENDORS_MONTHLY..(TOP_VENDORS_MONTHLY + 1) }

BreakdownInit ==
    /\ \E exps \in BreakdownLists : rpExpenses = Numbered(exps)
    /\ rpBudgets = <<>>
    /\ ret = NoCall
    /\ evBudget = Budget(1, "Supplies", 0, "monthly", 0, <<80, 95>>, FALSE, 50, 0)
    /\ StoreIdle
    /\ SaveIdle
    /\ SessionIdle

RpGetCategoryBreakdown ==
    /\ ret' = [op |-> "get_category_breakdown",
               value |-> get_category_breakdown(rpExpenses)]
    /\ ReportFrame

RpGetSubcategoryBreakdown(category) ==
    /\ ret' = [op |-> "get_subcategory_breakdown", category |-> category,
               value |-> get_subcategory_breakdown(rpExpenses, category)]
    /\ ReportFrame

RpGetTopVendors(n) ==
    /\ ret' = [op |-> "get_top_vendors", n |-> n,
               value |-> get_top_vendors(rpExpenses, n)]
    /\ ReportFrame

RpGetPaymentMethodBreakdown ==
    /\ ret' = [op |-> "get_payment_method_breakdown",
               value |-> get_payment_method_breakdown(rpExpenses)]
    /\ ReportFrame

BreakdownNext ==
    \/ RpGetCategoryBreakdown
    \/ \E category \in {""} \cup Categories :
          RpGetSubcategoryBreakdown(category)
    \/ \E n \in {TOP_VENDORS_MONTHLY, TOP_VENDORS_ANNUAL} : RpGetTopVendors(n)
    \/ RpGetPaymentMethodBreakdown

SpecBreakdown ==
    BreakdownInit /\ [][BreakdownNext]_vars

\* --------------------------------------------- claims under SpecBreakdown
\* The percentages of the entries added up, as a fraction over the total.
RECURSIVE SumOfPercentages(_, _)
SumOfPercentages(entries, den) ==
    IF entries = <<>> THEN 0
    ELSE Head(entries).percentage.num * (den \div Head(entries).percentage.den)
             + SumOfPercentages(Tail(entries), den)

\* The breakdowns a report holds: the subcategory breakdown without a
\* category filter, the vendors with the n of the monthly or annual report.
ReturnedToReport ==
    /\ ret.op \in {"get_category_breakdown", "get_subcategory_breakdown",
                   "get_top_vendors", "get_payment_method_breakdown"}
    /\ ret.op = "get_subcategory_breakdown" => ret.category = ""

\* C12: in every breakdown returned to a report each group's percentage is
\* its amount as a share of the overall total of the input records, and the
\* percentages of the returned groups add up to 100 when that total is > 0
\* and to 0 when it is 0.
C12_PercentagesSumTo100 ==
    ReturnedToReport =>
        LET total == SumAmounts(rpExpenses)
        IN  IF total > 0
            THEN /\ \A k \in DOMAIN ret.value :
                       ret.value[k].percentage.num * total
                           = ret.value[k].amount * 100
                                 * ret.value[k].percentage.den
                 /\ SumOfPercentages(ret.value, total) = 100 * total
            ELSE \A k \in DOMAIN ret.value : ret.value[k].percentage.num = 0

\* C12 amended: each group's percentage is its share of the overall total;
\* the percentages add up to 100 (total > 0) when every group is returned,
\* which the vendor breakdown does only when there are at most n vendors,
\* and never to more than 100.
C12_SharesSumTo100UnlessTruncated ==
    ReturnedToReport =>
        LET total == SumAmounts(rpExpenses)
            vendors == {rpExpenses[i].vendor : i \in DOMAIN rpExpenses}
            all_returned ==
                ret.op = "get_top_vendors" => Cardinality(vendors) <= ret.n
        IN  IF total > 0
            THEN /\ \A k \in DOMAIN ret.value :
                       ret.value[k].percentage.num * total
                           = ret.value[k].amount * 100
                                 * ret.value[k].percentage.den
                 /\ all_returned =>
                        SumOfPercentages(ret.value, total) = 100 * total
                 /\ SumOfPercentages(ret.value, total) <= 100 * total
            ELSE \A k \in DOMAIN ret.value : ret.value[k].percentage.num = 0

\* The monthly report's vendor breakdown left a vendor out.
C12_Witness ==
    /\ ret.op = "get_top_vendors"
    /\ ret.n = TOP_VENDORS_MONTHLY
    /\ Len(ret.value) = ret.n
    /\ Cardinality({rpExpenses[i].vendor : i \in DOMAIN rpExpenses}) > ret.n

\* The key function of the breakdown that was called.
KeyOfCall(e) ==
    IF ret.op = "get_category_breakdown" THEN e.category ELSE e.payment_method

FirstSeen(k) ==
    CHOOSE i \in DOMAIN rpExpenses :
        /\ KeyOfCall(rpExpenses[i]) = k
        /\ \A j \in 1..(i - 1) : KeyOfCall(rpExpenses[j]) # k

\* C13: the category and the payment method breakdown return one entry per
\* distinct key with the summed amount and the record count of that key, by
\* amount descending, entries of equal amount in the order in which their
\* keys were first seen in the input list.
C13_BreakdownOrderedStable ==
    ret.op \in {"get_category_breakdown", "get_payment_method_breakdown"} =>
        LET v == ret.value
            OfKey(k) == {i \in DOMAIN rpExpenses : KeyOfCall(rpExpenses[i]) = k}
        IN  /\ {v[j].key : j \in DOMAIN v}
                   = {KeyOfCall(rpExpenses[i]) : i \in DOMAIN rpExpenses}
            /\ \A j, k \in DOMAIN v : j # k => v[j].key # v[k].key
            /\ \A j \in DOMAIN v :
                  /\ v[j].amount = SumOver(rpExpenses, OfKey(v[j].key))
                  /\ v[j].count = Cardinality(OfKey(v[j].key))
            /\ \A j, k \in DOMAIN v :
                  j < k =>
                      \/ v[j].amount > v[k].amount
                      \/ /\ v[j].amount = v[k].amount
                         /\ FirstSeen(v[j].key) < FirstSeen(v[k].key)

\* A breakdown of two keys of equal amount was returned.
C13_Witness ==
    /\ ret.op \in {"get_category_breakdown", "get_payment_method_breakdown"}
    /\ Len(ret.value) = 2
    /\ ret.value[1].amount = ret.value[2].amount
    /\ ret.value[1].key = KeyOfCall(rpExpenses[1])

\* ----------------------------------------- more claims under SpecReport
\* C14: a monthly report is produced and the 'actual' of every budget in
\* its budget-vs-actual entries, as in the entries get_budget_vs_actual
\* returns for the full list, is calculate_spent of that budget over the
\* active records.
C14_ActualIsCalculateSpent ==
    /\ ret.op = "generate_monthly_report" =>
          /\ ~ret.value.raised
          /\ \A i \in DOMAIN rpBudgets :
                ret.value.value.budget_status[i].actual
                    = calculate_spent(rpBudgets[i], ActiveOnly(rpExpenses))
    /\ ret.op = "get_budget_vs_actual" =>
          \A i \in DOMAIN rpBudgets :
              ret.value[i].actual
                  = calculate_spent(rpBudgets[i], ActiveOnly(rpExpenses))


\* ------------------------------------------------ specification SpecStore
\* The ExpenseManager alone: _expenses as the dict it is, in insertion
\* order, each entry a key and the Expense object stored under it, and the
\* rows of expenses.csv. An attribute of a Python object holds whatever was
\* assigned to it: date_is_str tells whether the date attribute holds a
\* datetime (the tick) or a 'YYYY-MM-DD' string (the day).
StoredExpense(id, amount, date, category) ==
    Expense(id, amount, date, category) @@ [date_is_str |-> FALSE]

restore(e) ==
    [e EXCEPT !.is_deleted = FALSE]

\* Expense.update: setattr for every key that is an attribute
Expense_update(e, updates) ==
    [f \in DOMAIN e |-> IF f \in DOMAIN updates THEN updates[f] ELSE e[f]]

\* Expense.to_dict of a stored object: self.date.strftime raises
\* AttributeError when the date attribute holds a string
to_dict(e) ==
    IF e.date_is_str
    THEN [raised |-> TRUE, error |-> "AttributeError"]
    ELSE [raised |-> FALSE,
          value |-> Expense_to_dict(e)]

\* Expense.from_dict: parse_date of the date column gives midnight of the day
from_dict(row) ==
    [StoredExpense(row.expense_id, row.amount, Midnight(row.date),
                   row.category) EXCEPT !.is_deleted = row.is_deleted]

\* validate_expense of a stored object: validate_date parses a string date
\* ('%Y-%m-%d' is the first format it tries) before comparing it with now
validate_stored(e, now) ==
    validate_expense(
        [e EXCEPT !.date = IF e.date_is_str THEN Midnight(e.date) ELSE e.date],
        now)

KeysOf(d) ==
    {d[i].key : i \in DOMAIN d}

IndexOfKey(d, k) ==
    IF k \in KeysOf(d) THEN CHOOSE i \in DOMAIN d : d[i].key = k ELSE 0

\* d[k] = v of a dict: a present key keeps its position
DictSet(d, k, v) ==
    IF k \in KeysOf(d)
    THEN [d EXCEPT ![IndexOfKey(d, k)] = [key |-> k, value |-> v]]
    ELSE Append(d, [key |-> k, value |-> v])

RECURSIVE load_rows(_, _, _)
\* load_expenses: self._expenses[expense.expense_id] = expense, row by row
load_rows(rows, i, d) ==
    IF i > Len(rows) THEN d
    ELSE LET expense == from_dict(rows[i])
         IN  load_rows(rows, i + 1, DictSet(d, expense.expense_id, expense))

load_expenses(rows) ==
    load_rows(rows, 1, <<>>)

\* ExpenseManager.save_expenses: the rows of all values, or the exception of
\* the first to_dict that raises; the file is written only with all rows
store_rows(d) ==
    IF \E i \in DOMAIN d : to_dict(d[i].value).raised
    THEN [raised |-> TRUE, error |-> "AttributeError"]
    ELSE [raised |-> FALSE,
          value |-> [i \in DOMAIN d |-> to_dict(d[i].value).value]]

\* The tail of add_expense, update_expense, delete_expense, restore_expense:
\* save_expenses, then the return value, or the exception save_expenses
\* raised. ret names the returned value or the exception; add_expense
\* returns the expense_id that ret holds in id.
SaveAndReturn(op, id, permanent, value) ==
    LET saved == store_rows(expenses')
    IN  IF saved.raised
        THEN /\ UNCHANGED expense_file
             /\ ret' = [op |-> op, id |-> id, permanent |-> permanent,
                        value |-> saved.error]
        ELSE /\ expense_file' = saved.value
             /\ ret' = [op |-> op, id |-> id, permanent |-> permanent,
                        value |-> value]

StoreInit ==
    /\ expenses = <<>>
    /\ expense_file = <<>>
    /\ nextId = 1
    /\ budgets = <<>>
    /\ budget_file = <<>>
    /\ ret = NoCall
    /\ evBudget = Budget(1, "Supplies", 0, "monthly", 0, <<80, 95>>, FALSE, 50, 0)
    /\ ReportIdle
    /\ SaveIdle
    /\ SessionIdle

ExpenseStoreFrame ==
    UNCHANGED <<evBudget, budgets, budget_file, rpExpenses, rpBudgets, session,
                disk, pc>>

StAddExpense(amount, date, category, now) ==
    LET expense == StoredExpense(nextId, amount, date, category)
    IN  /\ nextId <= MaxExpenses
        /\ IF validate_stored(expense, now) # {}
           THEN /\ ret' = [op |-> "add_expense", id |-> nextId,
                           permanent |-> FALSE,
                           value |-> "MultipleValidationError"]
                /\ UNCHANGED <<expenses, nextId, expense_file>>
           ELSE /\ expenses' = DictSet(expenses, expense.expense_id, expense)
                /\ nextId' = nextId + 1
                /\ SaveAndReturn("add_expense", expense.expense_id, FALSE,
                                 "expense_id")
        /\ ExpenseStoreFrame

StUpdateExpense(id, updates, now) ==
    LET i == IndexOfKey(expenses, id)
    IN  /\ IF i = 0
           THEN /\ ret' = [op |-> "update_expense", id |-> id,
                           permanent |-> FALSE, value |-> "False"]
                /\ UNCHANGED <<expenses, expense_file>>
           ELSE LET updated == Expense_update(expenses[i].value, updates)
                IN  IF validate_stored(updated, now) # {}
                    THEN /\ expenses' = load_expenses(expense_file)
                         /\ ret' = [op |-> "update_expense", id |-> id,
                                    permanent |-> FALSE,
                                    value |-> "MultipleValidationError"]
                         /\ UNCHANGED expense_file
                    ELSE /\ expenses' = [expenses EXCEPT ![i].value = updated]
                         /\ SaveAndReturn("update_expense", id, FALSE, "True")
        /\ UNCHANGED nextId
        /\ ExpenseStoreFrame

StDeleteExpense(id, permanent) ==
    LET i == IndexOfKey(expenses, id)
    IN  /\ IF i = 0
           THEN /\ ret' = [op |-> "delete_expense", id |-> id,
                           permanent |-> permanent, value |-> "False"]
                /\ UNCHANGED <<expenses, expense_file>>
           ELSE /\ expenses' = IF permanent THEN RemoveAt(expenses, i)
                               ELSE [expenses EXCEPT
                                        ![i].value = soft_delete(@)]
                /\ SaveAndReturn("delete_expense", id, permanent, "True")
        /\ UNCHANGED nextId
        /\ ExpenseStoreFrame

StRestoreExpense(id) ==
    LET i == IndexOfKey(expenses, id)
    IN  /\ IF i = 0 \/ (i # 0 /\ ~expenses[i].value.is_deleted)
           THEN /\ ret' = [op |-> "restore_expense", id |-> id,
                           permanent |-> FALSE, value |-> "False"]
                /\ UNCHANGED <<expenses, expense_file>>
           ELSE /\ expenses' = [expenses EXCEPT ![i].value = restore(@)]
                /\ SaveAndReturn("restore_expense", id, FALSE, "True")
        /\ UNCHANGED nextId
        /\ ExpenseStoreFrame

\* A reload from the file (a new ExpenseManager on the same data directory)
StLoadExpenses ==
    /\ expenses' = load_expenses(expense_file)
    /\ ret' = [op |-> "load_expenses", id |-> 0, permanent |-> FALSE,
               value |-> "None"]
    /\ UNCHANGED <<nextId, expense_file>>
    /\ ExpenseStoreFrame

\* The identifiers add_expense generates and one it never generates
ExpenseIds ==
    1..(MaxExpenses + 1)

\* The updates dictionaries the store is driven with: a new amount (valid
\* or not), a new expense_id, and the dictionary the edit form passes, the
\* to_dict() of the form's Expense without expense_id and created_at, whose
\* date is the row string
StoreUpdates ==
    { [amount |-> a] : a \in {0} }
        \cup { [expense_id |-> k] : k \in ExpenseIds }
        \cup { [amount |-> a, date |-> 0, date_is_str |-> TRUE,
                 category |-> "Supplies", is_deleted |-> FALSE] : a \in {80} }

StoreNext ==
    \/ \E amount \in {15, 0}, t \in {MaxTick}, now \in {MaxTick} :
          StAddExpense(amount, t, "Supplies", now)
    \/ \E id \in ExpenseIds, updates \in StoreUpdates, now \in {MaxTick} :
          StUpdateExpense(id, updates, now)
    \/ \E id \in ExpenseIds, permanent \in BOOLEAN :
          StDeleteExpense(id, permanent)
    \/ \E id \in ExpenseIds : StRestoreExpense(id)
    \/ StLoadExpenses

SpecStore ==
    StoreInit /\ [][StoreNext]_vars


\* ------------------------------------------------ claims under SpecStore
\* C15: a record in the in-memory store stays in it over every operation
\* except delete_expense(id, permanent=True) for its own id: a rejected
\* update with its rollback reload, a reload from the file, a soft delete
\* or a restore never removes a key of the store.
C15_RecordsStayUntilPermanentDelete ==
    [][\A k \in KeysOf(expenses) :
          \/ k \in KeysOf(expenses')
          \/ /\ ret'.op = "delete_expense"
             /\ ret'.id = k
             /\ ret'.permanent]_vars

\* What a stored object shows in the columns of the file
RowView(e) ==
    [expense_id |-> e.expense_id, amount |-> e.amount,
     date |-> IF e.date_is_str THEN e.date ELSE DateOf(e.date),
     category |-> e.category, is_deleted |-> e.is_deleted]

\* C16: between two operations of the ExpenseManager the rows of the
\* expenses file are exactly the records of the in-memory store, in the
\* same order.
C16_FileEqualsStore ==
    expense_file = [i \in DOMAIN expenses |-> RowView(expenses[i].value)]

\* C17: every key of the expense store maps to a record whose expense_id is
\* that key, so no operation has changed the expense_id of a stored record.
C17_KeyIsExpenseId ==
    \A i \in DOMAIN expenses : expenses[i].value.expense_id = expenses[i].key


\* ------------------------------------------------- specification SpecSave
\* A save of the DataManager step by step: _atomic_write_csv for
\* expenses.csv, budgets.csv and templates.csv, save_settings for
\* settings.json. At every step the step can raise (an I/O error) or the
\* process can die. pc.df is the collection being saved, pc.old the target
\* file when the save began.
SaveInit ==
    /\ SaveIdle
    /\ SessionIdle
    /\ StoreIdle
    /\ ReportIdle
    /\ ret = NoCall
    /\ evBudget = Budget(1, "Supplies", 0, "monthly", 0, <<80, 95>>, FALSE, 50, 0)

SaveFrame ==
    UNCHANGED <<evBudget, expenses, budgets, nextId, expense_file,
                budget_file, rpExpenses, rpBudgets, session>>

\* save_expenses, save_budgets, save_templates, save_settings are called.
\* The saves of different files share no path: the behaviours explored
\* save one data file while the others are as ensure_data_dir created them.
SaveBegin(filepath, df) ==
    /\ pc.step = "idle"
    /\ \A f \in TargetFiles \ {filepath} :
          disk[f] = File(<<>>, TRUE) /\ ~disk[with_suffix_tmp(f)].exists
    /\ pc' = [step |-> "open", file |-> filepath, df |-> df,
              old |-> disk[filepath]]
    /\ ret' = [op |-> "save", file |-> filepath, value |-> "running"]
    /\ UNCHANGED disk
    /\ SaveFrame

\* A save that writes into the data file itself
write_in_place(filepath) ==
    filepath

\* The path the save writes the collection to: temp_file
written_path(filepath) ==
    with_suffix_tmp(filepath)

\* df.to_csv(temp_file) / open(temp_file, 'w'): the file is created or cut
SaveOpenTemp ==
    /\ pc.step = "open"
    /\ disk' = [disk EXCEPT ![written_path(pc.file)] = File(<<>>, FALSE)]
    /\ pc' = [pc EXCEPT !.step = "write"]
    /\ UNCHANGED ret
    /\ SaveFrame

\* to_csv / json.dump writes the next record, or closes the file after the last
SaveWriteTemp ==
    LET temp == written_path(pc.file)
        n == Len(disk[temp].rows)
    IN  /\ pc.step = "write"
        /\ IF n < Len(pc.df)
           THEN /\ disk' = [disk EXCEPT
                               ![temp] = File(Append(@.rows, pc.df[n + 1]),
                                              FALSE)]
                /\ UNCHANGED pc
           ELSE /\ disk' = [disk EXCEPT ![temp] = File(@.rows, TRUE)]
                /\ pc' = [pc EXCEPT !.step =
                             IF pc.file = "settings.json" THEN "rename"
                             ELSE "verify"]
        /\ UNCHANGED ret
        /\ SaveFrame

\* pd.read_csv(temp_file, nrows=1): the columns are those just written
SaveVerifyTemp ==
    /\ pc.step = "verify"
    /\ pc' = [pc EXCEPT !.step = "rename"]
    /\ UNCHANGED <<disk, ret>>
    /\ SaveFrame

\* temp_file.replace(filepath)
SaveRename ==
    LET temp == with_suffix_tmp(pc.file)
    IN  /\ pc.step = "rename"
        /\ disk' = [disk EXCEPT ![pc.file] = disk[temp], ![temp] = NoFile]
        /\ pc' = [pc EXCEPT !.step = "return"]
        /\ UNCHANGED ret
        /\ SaveFrame

SaveReturn ==
    /\ pc.step = "return"
    /\ pc' = NoSave
    /\ ret' = [op |-> "save", file |-> pc.file, value |-> "None"]
    /\ UNCHANGED disk
    /\ SaveFrame

\* The step the save is at raises an exception
SaveRaise ==
    /\ pc.step \in {"open", "write", "verify", "rename"}
    /\ pc' = [pc EXCEPT !.step = "except"]
    /\ UNCHANGED <<disk, ret>>
    /\ SaveFrame

\* except Exception: if temp_file.exists(): temp_file.unlink(); raise FileError
SaveExcept ==
    /\ pc.step = "except"
    /\ disk' = [disk EXCEPT ![with_suffix_tmp(pc.file)] = NoFile]
    /\ pc' = NoSave
    /\ ret' = [op |-> "save", file |-> pc.file, value |-> "FileError"]
    /\ SaveFrame

\* The process dies; the files stay as they are
SaveCrash ==
    /\ pc.step # "idle"
    /\ pc' = NoSave
    /\ ret' = [op |-> "save", file |-> pc.file, value |-> "crash"]
    /\ UNCHANGED disk
    /\ SaveFrame

SaveNext ==
    \/ \E filepath \in TargetFiles, n \in 0..MaxExpenses :
          SaveBegin(filepath, [i \in 1..n |-> i])
    \/ SaveOpenTemp
    \/ SaveWriteTemp
    \/ SaveVerifyTemp
    \/ SaveRename
    \/ SaveReturn
    \/ SaveRaise
    \/ SaveExcept
    \/ SaveCrash

SpecSave ==
    SaveInit /\ [][SaveNext]_vars

Budget_from_dict(row) ==
    Budget(row.budget_id, row.category, row.amount, row.period_type,
           Midnight(row.period_start),
           <<row.warning_threshold, row.critical_threshold>>,
           row.rollover_enabled, row.rollover_cap_percent,
           row.previous_rollover)

load_budgets(rows) ==
    [i \in DOMAIN rows |-> Budget_from_dict(rows[i])]

\* validate_budget, for the fields of the model
validate_budget(b) ==
    (IF b.amount < 0 \/ b.amount > MAX_AMOUNT THEN {"amount"} ELSE {})
        \cup (IF b.warning_threshold >= b.critical_threshold
              THEN {"warning_threshold"} ELSE {})

SpentOf(bs) ==
    [i \in DOMAIN bs |-> bs[i].spent]

\* BudgetManager.load_budgets, called on the running manager
LoadBudgets ==
    /\ budgets' = load_budgets(budget_file)
    /\ ret' = [op |-> "load_budgets", spent_before |-> SpentOf(budgets)]
    /\ UNCHANGED <<expenses, nextId, expense_file, budget_file>>
    /\ StoreFrame

UpdateBudget(i, updates) ==
    /\ IF i \notin DOMAIN budgets
       THEN /\ ret' = [op |-> "update_budget", raised |-> FALSE,
                       spent_before |-> SpentOf(budgets)]
            /\ UNCHANGED <<budgets, budget_file>>
       ELSE LET updated == [f \in DOMAIN budgets[i] |->
                               IF f \in DOMAIN updates THEN updates[f]
                               ELSE budgets[i][f]]
            IN  IF validate_budget(updated) # {}
                THEN /\ budgets' = load_budgets(budget_file)
                     /\ ret' = [op |-> "update_budget", raised |-> TRUE,
                                spent_before |-> SpentOf(budgets)]
                     /\ UNCHANGED budget_file
                ELSE /\ budgets' = [budgets EXCEPT ![i] = updated]
                     /\ budget_file' = save_budgets(budgets')
                     /\ ret' = [op |-> "update_budget", raised |-> FALSE,
                                spent_before |-> SpentOf(budgets)]
    /\ UNCHANGED <<expenses, nextId, expense_file>>
    /\ StoreFrame

BudgetStoreNext ==
    \/ \E amount \in ExpenseAmounts, day \in EntryDays :
          AddExpense(amount, Midnight(day), "Supplies", MaxTick)
    \/ \E i \in 1..3 : UpdateBudgetSpent(i)
    \/ UpdateAllBudgetsSpent
    \/ LoadBudgets
    \/ \E i \in 1..3,
          updates \in {[amount |-> 200], [amount |-> 0 - 1],
                       [warning_threshold |-> 95]} :
          UpdateBudget(i, updates)

SpecBudgetStore ==
    Init /\ [][BudgetStoreNext]_vars

\* ------------------------------------------ claims under SpecBudgetStore
\* C19: the spent value computed by update_budget_spent or
\* update_all_budgets_spent is persisted: a reload of the budgets from the
\* file, by load_budgets or by the rollback of a rejected update_budget,
\* yields every budget with the spent value it had before the reload.
C19_SpentSurvivesReload ==
    (ret.op = "load_budgets" \/ (ret.op = "update_budget" /\ ret.raised))
        => SpentOf(budgets) = ret.spent_before


\* --------------------------------------------- specification SpecRoundTrip
\* Expense.to_dict and Expense.from_dict on one record, with the fields
\* whose row format differs from the attribute: the dates, the timestamps,
\* the tags and the optional strings. A timestamp is a second (the tick)
\* and the microseconds datetime.now() adds to it. An Optional[datetime]
\* is <<>> for None and <<t>> for a datetime; so is its column, <<>> for ''.
None ==
    "<None>"

Timestamp(second, microsecond) ==
    [second |-> second, microsecond |-> microsecond]

\* str.strip of a tag
strip(tag) ==
    CASE tag = " vip" -> "vip"
      [] tag = " " -> ""
      [] OTHER -> tag

\* [t.strip() for t in tags.split(',') if t.strip()]
RECURSIVE split_tags(_)
split_tags(tags) ==
    IF tags = <<>> THEN <<>>
    ELSE (IF strip(Head(tags)) = "" THEN <<>> ELSE <<strip(Head(tags))>>)
             \o split_tags(Tail(tags))

\* Expense.to_dict: date and next_due_date as '%Y-%m-%d', the timestamps as
\* '%Y-%m-%d %H:%M:%S', the tags joined with ',' (the joined string is the
\* sequence of its parts)
Expense_to_row(e) ==
    [expense_id |-> e.expense_id, amount |-> e.amount,
     date |-> DateOf(e.date), category |-> e.category,
     tags |-> e.tags,
     recurring_type |-> IF e.recurring_type = None THEN ""
                        ELSE e.recurring_type,
     next_due_date |-> [i \in DOMAIN e.next_due_date |->
                          DateOf(e.next_due_date[i])],
     is_deleted |-> e.is_deleted,
     deleted_at |-> [i \in DOMAIN e.deleted_at |-> e.deleted_at[i].second],
     created_at |-> e.created_at.second,
     updated_at |-> e.updated_at.second]

\* Expense.from_dict: parse_date of the dates, strptime of the timestamps
Expense_from_row(row) ==
    [expense_id |-> row.expense_id, amount |-> row.amount,
     date |-> Midnight(row.date), category |-> row.category,
     tags |-> split_tags(row.tags),
     recurring_type |-> IF row.recurring_type = "" THEN None
                        ELSE row.recurring_type,
     next_due_date |-> [i \in DOMAIN row.next_due_date |->
                          Midnight(row.next_due_date[i])],
     is_deleted |-> row.is_deleted,
     deleted_at |-> [i \in DOMAIN row.deleted_at |->
                       Timestamp(row.deleted_at[i], 0)],
     created_at |-> Timestamp(row.created_at, 0),
     updated_at |-> Timestamp(row.updated_at, 0)]

\* The records validate_expense accepts: a tag may carry blanks, tags of
\* blanks only are skipped, recurring_type is not looked at unless
\* is_recurring
ValidExpenses ==
    { [expense_id |-> 1, amount |-> 15, date |-> d, category |-> "Supplies",
       tags |-> tg, recurring_type |-> rt, next_due_date |-> nd,
       is_deleted |-> del,
       deleted_at |-> IF del THEN <<Timestamp(MaxTick, us)>> ELSE <<>>,
       created_at |-> Timestamp(d, us),
       updated_at |-> Timestamp(MaxTick, us)] :
        d \in Ticks, tg \in {<<>>, <<"vip">>, <<" vip">>, <<"vip", " ">>},
        rt \in {None, "", "monthly"}, nd \in {<<>>, <<MaxTick>>},
        del \in BOOLEAN, us \in {0, 1} }

RoundTripInit ==
    /\ rpExpenses \in {<<e>> : e \in ValidExpenses}
    /\ rpBudgets = <<>>
    /\ StoreIdle
    /\ SaveIdle
    /\ SessionIdle
    /\ ret = NoCall
    /\ evBudget = Budget(1, "Supplies", 0, "monthly", 0, <<80, 95>>, FALSE, 50, 0)

RtToDict ==
    /\ ret.op = "none"
    /\ ret' = [op |-> "to_dict", value |-> Expense_to_row(rpExpenses[1])]
    /\ ReportFrame

RtFromDict ==
    /\ ret.op = "to_dict"
    /\ ret' = [op |-> "from_dict", value |-> Expense_from_row(ret.value)]
    /\ ReportFrame

RoundTripNext ==
    \/ RtToDict
    \/ RtFromDict

SpecRoundTrip ==
    RoundTripInit /\ [][RoundTripNext]_vars

\* -------------------------------------------- claims under SpecRoundTrip
\* The fields whose row format is YYYY-MM-DD, at day precision
AtDayPrecision(e) ==
    [e EXCEPT !.date = DateOf(@),
              !.next_due_date = [i \in DOMAIN @ |-> DateOf(@[i])]]

\* C20: the record parsed back from the row of a valid record equals the
\* record in every field, the date and next_due_date compared by their day.
C20_RoundTrip ==
    ret.op = "from_dict"
        => AtDayPrecision(ret.value) = AtDayPrecision(rpExpenses[1])


\* --------------------------------------------- specification SpecRecurring
\* estimate_monthly_recurring on every short list of records. The amounts
\* amount / 3 and amount / 12 are kept exact: the estimate is in twelfths
\* of a Lek. The loop reads expense.recurring_frequency; reading an
\* attribute the object does not have raises AttributeError.
RECURSIVE estimate_loop(_, _)
estimate_loop(recurring, monthly_estimate) ==
    IF recurring = <<>>
    THEN [raised |-> FALSE, twelfths |-> monthly_estimate]
    ELSE LET expense == Head(recurring)
         IN  IF "recurring_frequency" \notin DOMAIN expense
             THEN [raised |-> TRUE, twelfths |-> 0]
             ELSE LET freq == expense["recurring_frequency"]
                      part == CASE freq = "daily" -> expense.amount * 30 * 12
                                [] freq = "weekly" -> expense.amount * 4 * 12
                                [] freq = "biweekly" -> expense.amount * 2 * 12
                                [] freq = "monthly" -> expense.amount * 12
                                [] freq = "quarterly" -> expense.amount * 4
                                [] freq = "annually" -> expense.amount
                                [] OTHER -> 0
                  IN  estimate_loop(Tail(recurring), monthly_estimate + part)

estimate_monthly_recurring(exps) ==
    LET Recurring(e) == e.is_recurring /\ ~e.is_deleted
    IN  estimate_loop(SelectSeq(exps, Recurring), 0)

\* Expense objects with the recurring fields of the dataclass
RecurringInit ==
    /\ rpExpenses \in UNION {
          [1..n -> { Expense(0, a, 0, "Supplies")
                        @@ [is_recurring |-> r, recurring_type |-> rt] :
                      a \in {15}, r \in BOOLEAN,
                      rt \in {None, "daily", "weekly", "biweekly", "monthly",
                              "quarterly", "annually"} }] :
          n \in 0..MaxReportExpenses }
    /\ rpBudgets = <<>>
    /\ ret = NoCall
    /\ evBudget = Budget(1, "Supplies", 0, "monthly", 0, <<80, 95>>, FALSE, 50, 0)
    /\ StoreIdle
    /\ SaveIdle
    /\ SessionIdle

\* A record of the list is soft-deleted (Expense.soft_delete)
RpSoftDelete(i) ==
    /\ i \in DOMAIN rpExpenses
    /\ ~rpExpenses[i].is_deleted
    /\ rpExpenses' = [rpExpenses EXCEPT ![i] = soft_delete(@)]
    /\ ret' = [op |-> "soft_delete"]
    /\ UNCHANGED <<evBudget, expenses, budgets, nextId, expense_file,
                   budget_file, rpBudgets, session, disk, pc>>

RpEstimateMonthlyRecurring ==
    /\ ret' = [op |-> "estimate_monthly_recurring",
               value |-> estimate_monthly_recurring(rpExpenses)]
    /\ ReportFrame

SpecRecurring ==
    RecurringInit
        /\ [][RpEstimateMonthlyRecurring
              \/ \E i \in 1..MaxReportExpenses : RpSoftDelete(i)]_vars

\* --------------------------------------------- claims under SpecRecurring
\* The multiplier of a recurrence frequency, in twelfths
StatedMultiplier12(rt) ==
    CASE rt = "daily" -> 360
      [] rt = "weekly" -> 48
      [] rt = "biweekly" -> 24
      [] rt = "monthly" -> 12
      [] rt = "quarterly" -> 4
      [] rt = "annually" -> 1
      [] OTHER -> 0

RECURSIVE StatedEstimate12(_)
StatedEstimate12(exps) ==
    IF exps = <<>> THEN 0
    ELSE (IF Head(exps).is_recurring /\ ~Head(exps).is_deleted
          THEN Head(exps).amount * StatedMultiplier12(Head(exps).recurring_type)
          ELSE 0) + StatedEstimate12(Tail(exps))

\* C21: estimate_monthly_recurring returns the sum over the active
\* recurring records of amount times the multiplier of the frequency
\* (daily 30, weekly 4, biweekly 2, monthly 1, quarterly 1/3, annually
\* 1/12); other records contribute nothing.
C21_EstimateIsWeightedSum ==
    ret.op = "estimate_monthly_recurring"
        => /\ ~ret.value.raised
           /\ ret.value.twelfths = StatedEstimate12(rpExpenses)


\* --------------------------------------------- specification SpecSettings
\* A JSON object is the set of its items. An item is a key with either a
\* value that is no object (leaf) or an object (sub, the set of its items).
Leaf(k, v) ==
    [k |-> k, is_dict |-> FALSE, leaf |-> v, sub |-> {}]

Section(k, items) ==
    [k |-> k, is_dict |-> TRUE, leaf |-> "", sub |-> items]

\* The sections general and display of DEFAULT_SETTINGS, two keys of the
\* first and one of the second
DEFAULT_SETTINGS ==
    { Section("general", {Leaf("language", "en"),
                          Leaf("date_format", "DD/MM/YYYY")}),
      Section("display", {Leaf("theme", "default")}) }

\* dict.update: every key of updates replaces the key of base
dict_update(base, updates) ==
    {e \in base : e.k \notin {u.k : u \in updates}} \cup updates

RECURSIVE _merge_settings(_, _)
_merge_settings(base, updates) ==
    LET At(key) == CHOOSE e \in base : e.k = key
        Merged(u) ==
            IF u.k \in {e.k : e \in base} /\ At(u.k).is_dict /\ u.is_dict
            THEN Section(u.k, _merge_settings(At(u.k).sub, u.sub))
            ELSE u
    IN  {e \in base : e.k \notin {u.k : u \in updates}}
            \cup {Merged(u) : u \in updates}

\* The documents a settings file of the user can hold: the section general
\* with any of its keys and a key the defaults do not have, or a value that
\* is no object under that name; the section display; a key outside the
\* sections
UserDocuments ==
    { g \cup d \cup c :
        g \in {{}, {Leaf("general", "x")}}
                \cup { {Section("general", items)} :
                         items \in SUBSET {Leaf("language", "sq"),
                                           Leaf("date_format", "MM/DD/YYYY"),
                                           Leaf("salon_logo", "logo.png")} },
        d \in {{}, {Section("display", {})},
               {Section("display", {Leaf("theme", "dark")})}},
        c \in {{}, {Leaf("currency", "ALL")}} }

\* DataManager.__init__ on the data directory of the user: the settings
\* file found there is kept; a missing one is created with the defaults,
\* which are then cached (ensure_data_dir, save_settings)
SettingsInit ==
    /\ \/ /\ \E doc \in UserDocuments, valid \in BOOLEAN :
                settings_file = [exists |-> TRUE, valid |-> valid,
                                 doc |-> IF valid THEN doc ELSE {}]
          /\ _settings_cache = <<>>
       \/ /\ settings_file = [exists |-> TRUE, valid |-> TRUE,
                              doc |-> DEFAULT_SETTINGS]
          /\ _settings_cache = <<DEFAULT_SETTINGS>>
    /\ backups = <<>>
    /\ _undo_stack = <<>>
    /\ _redo_stack = <<>>
    /\ _callbacks = {}
    /\ ret = NoCall
    /\ evBudget = Budget(1, "Supplies", 0, "monthly", 0, <<80, 95>>, FALSE, 50, 0)
    /\ StoreIdle
    /\ ReportIdle
    /\ SaveIdle

SettingsFrame ==
    UNCHANGED <<evBudget, expenses, budgets, nextId, expense_file,
                budget_file, rpExpenses, rpBudgets, disk, pc, backups,
                _undo_stack, _redo_stack, _callbacks>>

\* load_settings; source tells which branch answered
LoadSettings ==
    /\ IF _settings_cache # <<>>
       THEN /\ ret' = [op |-> "load_settings", source |-> "cache",
                       value |-> _settings_cache[1]]
            /\ UNCHANGED <<settings_file, _settings_cache>>
       ELSE IF ~settings_file.exists
       THEN /\ _settings_cache' = <<DEFAULT_SETTINGS>>
            /\ settings_file' = [exists |-> TRUE, valid |-> TRUE,
                                 doc |-> DEFAULT_SETTINGS]
            /\ ret' = [op |-> "load_settings", source |-> "defaults",
                       value |-> DEFAULT_SETTINGS]
       ELSE IF ~settings_file.valid
       THEN /\ _settings_cache' = <<DEFAULT_SETTINGS>>
            /\ ret' = [op |-> "load_settings", source |-> "defaults",
                       value |-> DEFAULT_SETTINGS]
            /\ UNCHANGED settings_file
       ELSE LET settings == _merge_settings(DEFAULT_SETTINGS,
                                            settings_file.doc)
            IN  /\ _settings_cache' = <<settings>>
                /\ ret' = [op |-> "load_settings", source |-> "file",
                           value |-> settings]
                /\ UNCHANGED settings_file
    /\ SettingsFrame

\* save_settings(settings)
SaveSettings(settings) ==
    /\ settings_file' = [exists |-> TRUE, valid |-> TRUE, doc |-> settings]
    /\ _settings_cache' = <<settings>>
    /\ ret' = [op |-> "save_settings", source |-> "", value |-> settings]
    /\ SettingsFrame

\* A new DataManager is constructed on the same data directory (the
\* application is started again)
NewDataManager ==
    /\ settings_file.exists
    /\ _settings_cache' = <<>>
    /\ ret' = [op |-> "__init__", source |-> "", value |-> {}]
    /\ UNCHANGED settings_file
    /\ SettingsFrame

SettingsNext ==
    \/ LoadSettings
    \/ \E settings \in {DEFAULT_SETTINGS,
                        {Section("general", {Leaf("language", "sq")})}} :
           SaveSettings(settings)
    \/ NewDataManager

SpecSettings ==
    SettingsInit /\ [][SettingsNext]_vars

\* ---------------------------------------------- claims under SpecSettings
\* The value a document holds for a key of a section; Missing when the
\* document has no such section, the section is no object or lacks the key
Missing ==
    "<missing>"

ValueAt(doc, section, key) ==
    LET secs == {e \in doc : e.k = section /\ e.is_dict}
        vals == UNION {{i \in e.sub : i.k = key} : e \in secs}
    IN  IF vals = {} THEN Missing ELSE (CHOOSE i \in vals : TRUE).leaf

DefaultKeys ==
    UNION {{<<e.k, i.k>> : i \in e.sub} : e \in DEFAULT_SETTINGS}

\* The result holds, for every section and key of the defaults, the value
\* of the document and the default where the document has none
MergedWithDefaults(result, doc) ==
    \A sk \in DefaultKeys :
        ValueAt(result, sk[1], sk[2]) =
            IF ValueAt(doc, sk[1], sk[2]) # Missing
            THEN ValueAt(doc, sk[1], sk[2])
            ELSE ValueAt(DEFAULT_SETTINGS, sk[1], sk[2])

\* Every key stored by the user is in the result with the stored value
KeepsUserValues(result, doc) ==
    \A e \in doc :
        IF e.is_dict
        THEN \A i \in e.sub : ValueAt(result, e.k, i.k) = i.leaf
        ELSE e \in result

\* C22: on loading settings the result holds, for every section and key,
\* the value stored in the settings file when the file has the key and the
\* default otherwise.
C22_LoadMergesDefaults ==
    ret.op = "load_settings"
        => MergedWithDefaults(ret.value, settings_file.doc)

\* C22 as amended: a load that reads the file (nothing is cached), of a
\* file in which the sections of the defaults are objects, returns the
\* stored values and the defaults for the other keys; a load that finds
\* cached settings returns them as they are; a load of a file that is no
\* JSON document returns the defaults.
C22_FileLoadMergesDefaults ==
    ret.op = "load_settings" =>
        /\ ret.source = "file" =>
              /\ KeepsUserValues(ret.value, settings_file.doc)
              /\ (\A e \in settings_file.doc :
                      e.k \in {d.k : d \in DEFAULT_SETTINGS} => e.is_dict)
                    => MergedWithDefaults(ret.value, settings_file.doc)
        /\ ret.source = "cache" => ret.value = _settings_cache[1]
        /\ ret.source = "defaults" => ret.value = DEFAULT_SETTINGS

\* A file with the language of the user and no date format was loaded.
C22_Witness ==
    /\ ret.op = "load_settings"
    /\ ret.source = "file"
    /\ ValueAt(settings_file.doc, "general", "language") = "sq"
    /\ ValueAt(settings_file.doc, "general", "date_format") = Missing
    /\ ValueAt(settings_file.doc, "display", "theme") = Missing
    /\ ValueAt(ret.value, "general", "language") = "sq"
    /\ ValueAt(ret.value, "general", "date_format") = "DD/MM/YYYY"
    /\ ValueAt(ret.value, "display", "theme") = "default"


\* ---------------------------------------------- specification SpecCompare
\* compare_periods on the lists of SpecTrend, for every two periods that
\* start with the first and end with the last instant of a month
RpComparePeriods(p1_start, p1_end, p2_start, p2_end) ==
    /\ ret' = [op |-> "compare_periods",
               period1 |-> <<p1_start, p1_end>>,
               period2 |-> <<p2_start, p2_end>>,
               value |-> compare_periods(rpExpenses, p1_start, p1_end,
                                         p2_start, p2_end)]
    /\ ReportFrame

SpecCompare ==
    TrendInit
        /\ [][\E p1_start, p2_start \in {MonthStart(m) : m \in Months},
                 p1_end, p2_end \in {MonthEnd(m) : m \in Months} :
                  RpComparePeriods(p1_start, p1_end, p2_start, p2_end)]_vars

\* ----------------------------------------------- claims under SpecCompare
\* The total and the number of the records dated in a period
StatedPeriodTotal(exps, period) ==
    SumAmounts(period_expenses(exps, period[1], period[2]))

StatedPeriodCount(exps, period) ==
    Len(period_expenses(exps, period[1], period[2]))

\* C23: compare_periods never divides by zero: it returns, for any list
\* and any two periods A (baseline) and B, deltas that are the period-B
\* value minus the period-A value, and a delta percentage of 0 when the
\* baseline total is 0.
C23_DeltasAreDifferences ==
    ret.op = "compare_periods" =>
        /\ ~ret.value.raised
        /\ ret.value.value.amount_change =
               StatedPeriodTotal(rpExpenses, ret.period2)
                   - StatedPeriodTotal(rpExpenses, ret.period1)
        /\ ret.value.value.count_change =
               StatedPeriodCount(rpExpenses, ret.period2)
                   - StatedPeriodCount(rpExpenses, ret.period1)
        /\ StatedPeriodTotal(rpExpenses, ret.period1) = 0
               => ret.value.value.amount_change_pct.num = 0


\* ------------------------------------------ C24, a claim under SpecStore
\* C24: a rejected update leaves the state unchanged: when update_expense
\* does not complete successfully (validation fails, or an exception is
\* raised on the way), every record of the in-memory store has the field
\* values it had before the call and the file is unchanged, so memory and
\* file still agree.
C24_RejectedUpdateChangesNothing ==
    [][(ret'.op = "update_expense"
            /\ ret'.value \in {"MultipleValidationError", "AttributeError"})
          => /\ expenses' = expenses
             /\ expense_file' = expense_file
             /\ store_rows(expenses').raised = FALSE
             /\ store_rows(expenses').value = expense_file']_vars


\* ------------------------------------------- specification SpecBudgetCrud
\* add_budget, update_budget and delete_budget on a BudgetManager that
\* starts without budgets. uuid4 gives every new Budget a fresh budget_id,
\* nextId here; MaxBudgets budgets are constructed at most.
MaxBudgets ==
    3

\* get_budget_for_period: the position of the first budget of the
\* category with these period dates, 0 for None
get_budget_for_period(bs, category, period_start, period_end_) ==
    LET Same(i) == /\ bs[i].category = category
                   /\ DateOf(bs[i].period_start) = DateOf(period_start)
                   /\ DateOf(period_end(bs[i])) = DateOf(period_end_)
    IN  IF \E i \in DOMAIN bs : Same(i)
        THEN CHOOSE i \in DOMAIN bs : Same(i) /\ \A j \in 1..(i - 1) : ~Same(j)
        ELSE 0

AddBudget(budget) ==
    /\ nextId <= MaxBudgets
    /\ IF validate_budget(budget) # {}
       THEN /\ ret' = [op |-> "add_budget", budget |-> 0, raised |-> TRUE,
                       value |-> "MultipleValidationError"]
            /\ UNCHANGED <<budgets, budget_file, nextId>>
       ELSE IF get_budget_for_period(budgets, budget.category,
                                     budget.period_start,
                                     period_end(budget)) # 0
       THEN /\ ret' = [op |-> "add_budget", budget |-> 0, raised |-> TRUE,
                       value |-> "BudgetExistsError"]
            /\ UNCHANGED <<budgets, budget_file, nextId>>
       ELSE /\ budgets' = Append(budgets, budget)
            /\ budget_file' = save_budgets(budgets')
            /\ nextId' = nextId + 1
            /\ ret' = [op |-> "add_budget", budget |-> budget.budget_id,
                       raised |-> FALSE, value |-> "budget_id"]
    /\ UNCHANGED <<expenses, expense_file>>
    /\ StoreFrame

\* delete_budget of the budget at position i of the dictionary
DeleteBudget(i) ==
    /\ IF i \notin DOMAIN budgets
       THEN /\ ret' = [op |-> "delete_budget", budget |-> 0,
                       raised |-> FALSE, value |-> "False"]
            /\ UNCHANGED <<budgets, budget_file>>
       ELSE /\ budgets' = RemoveAt(budgets, i)
            /\ budget_file' = save_budgets(budgets')
            /\ ret' = [op |-> "delete_budget",
                       budget |-> budgets[i].budget_id,
                       raised |-> FALSE, value |-> "True"]
    /\ UNCHANGED <<expenses, nextId, expense_file>>
    /\ StoreFrame

BudgetCrudInit ==
    /\ StoreIdle
    /\ ReportIdle
    /\ SaveIdle
    /\ SessionIdle
    /\ ret = NoCall
    /\ evBudget = Budget(1, "Supplies", 0, "monthly", 0, <<80, 95>>, FALSE, 50, 0)

\* The budget form: category, amount and period of a new budget; amount,
\* period_type and period_start of an edited one
BudgetCrudNext ==
    \/ \E cat \in Categories, amt \in {100, 0 - 1}, m \in Months :
          AddBudget(Budget(nextId, cat, amt, "monthly", MonthStart(m),
                           <<80, 95>>, FALSE, 50, 0))
    \/ \E i \in 1..MaxBudgets,
          updates \in {[amount |-> 200, period_type |-> "monthly",
                        period_start |-> MonthStart(m)] : m \in Months}
                        \cup {[amount |-> 0 - 1]} :
          UpdateBudget(i, updates)
    \/ \E i \in 1..MaxBudgets : DeleteBudget(i)

SpecBudgetCrud ==
    BudgetCrudInit /\ [][BudgetCrudNext]_vars

\* -------------------------------------------- claims under SpecBudgetCrud
\* C25: after any sequence of add_budget, update_budget and delete_budget
\* the store never holds two budgets with the same category and the same
\* period start and end dates; an add_budget for a category and period
\* that has a budget raises BudgetExistsError.
C25_OneBudgetPerCategoryAndPeriod ==
    /\ \A i, j \in DOMAIN budgets :
          (/\ budgets[i].category = budgets[j].category
           /\ DateOf(budgets[i].period_start) = DateOf(budgets[j].period_start)
           /\ DateOf(period_end(budgets[i])) = DateOf(period_end(budgets[j])))
              => i = j
    /\ ret.op = "add_budget" /\ ret.raised
          => ret.value \in {"MultipleValidationError", "BudgetExistsError"}


\* ------------------------------------------- C26, a claim under SpecEval
\* C26: the two status computations agree: for every budget and every
\* spent value s, Budget.get_status(s) and BudgetManager.get_budget_status
\* on the same budget with spent = s give the same severity level, also
\* with rollover enabled and a previous rollover, and with thresholds
\* other than the defaults.
C26_StatusComputationsAgree ==
    ret.op = "Budget.get_status" =>
        Severity(ret.value) =
            Severity(get_budget_status([evBudget EXCEPT !.spent = ret.spent]))


\* ----------------------------------------------- specification SpecBackup
\* create_backup and restore_backup on the managed backups directory.
\* backups lists the ZIP files there from the oldest to the newest
\* modification time; a file holds the data files it was made from, here
\* expenses.csv and budgets.csv. Every backup gets its own name (the
\* timestamp of its creation), nextId here. max_backups stands for
\* settings['backup']['max_backups'] (10 by default).
max_backups ==
    2

MaxBackupCalls ==
    4

\* _cleanup_old_backups: list_backups sorts newest first, the files after
\* the first max_backups are unlinked
_cleanup_old_backups(files) ==
    IF Len(files) > max_backups
    THEN SubSeq(files, Len(files) - max_backups + 1, Len(files))
    ELSE files

\* create_backup(name): the directory after the ZIP file is written and
\* the old backups are cleaned up
create_backup(files, id, name) ==
    _cleanup_old_backups(
        Append(files, [id |-> id, name |-> name, expenses |-> expense_file,
                       budgets |-> budget_file]))

BackupInit ==
    /\ StoreIdle
    /\ ReportIdle
    /\ SaveIdle
    /\ settings_file = [exists |-> TRUE, valid |-> TRUE,
                        doc |-> DEFAULT_SETTINGS]
    /\ _settings_cache = <<DEFAULT_SETTINGS>>
    /\ backups = <<>>
    /\ _undo_stack = <<>>
    /\ _redo_stack = <<>>
    /\ _callbacks = {}
    /\ ret = NoCall
    /\ evBudget = Budget(1, "Supplies", 0, "monthly", 0, <<80, 95>>, FALSE, 50, 0)

BackupFrame ==
    UNCHANGED <<evBudget, expenses, budgets, rpExpenses, rpBudgets, disk, pc,
                settings_file, _undo_stack, _redo_stack, _callbacks>>

\* get_settings in _cleanup_old_backups loads the settings when none are
\* cached
SettingsRead ==
    IF _settings_cache = <<>>
    THEN <<_merge_settings(DEFAULT_SETTINGS, settings_file.doc)>>
    ELSE _settings_cache

\* The data files are saved with new rows (save_expenses, save_budgets)
BkSaveData(rows) ==
    /\ expense_file' = rows
    /\ budget_file' = rows
    /\ ret' = [op |-> "save_expenses", raised |-> FALSE, chosen |-> 0,
               before |-> <<>>]
    /\ UNCHANGED <<backups, nextId, _settings_cache>>
    /\ BackupFrame

BkCreateBackup ==
    /\ nextId <= MaxBackupCalls
    /\ backups' = create_backup(backups, nextId, "auto")
    /\ nextId' = nextId + 1
    /\ _settings_cache' = SettingsRead
    /\ ret' = [op |-> "create_backup", raised |-> FALSE, chosen |-> nextId,
               before |-> <<>>]
    /\ UNCHANGED <<expense_file, budget_file>>
    /\ BackupFrame

\* restore_backup(backup_path) for the file at position i of the directory
BkRestoreBackup(i) ==
    /\ nextId <= MaxBackupCalls
    /\ i \in DOMAIN backups
    /\ LET chosen == backups[i]
           after_safety == create_backup(backups, nextId,
                                         "pre_restore_safety")
           still_there == \E j \in DOMAIN after_safety :
                              after_safety[j].id = chosen.id
       IN  /\ backups' = after_safety
           /\ nextId' = nextId + 1
           /\ IF still_there
              THEN /\ expense_file' = chosen.expenses
                   /\ budget_file' = chosen.budgets
                   /\ _settings_cache' = <<>>
              ELSE /\ UNCHANGED <<expense_file, budget_file>>
                   /\ _settings_cache' = SettingsRead
           /\ ret' = [op |-> "restore_backup", raised |-> ~still_there,
                      chosen |-> chosen.id, before |-> expense_file]
    /\ BackupFrame

BackupNext ==
    \/ \E rows \in {<<>>, <<"a">>, <<"a", "b">>} : BkSaveData(rows)
    \/ BkCreateBackup
    \/ \E i \in 1..max_backups : BkRestoreBackup(i)

SpecBackup ==
    BackupInit /\ [][BackupNext]_vars

\* ------------------------------------------------ claims under SpecBackup
\* C27: restore_backup on an existing backup file, also one of the managed
\* directory when that holds max_backups backups, ends with the data files
\* equal to the contents of the chosen backup and with the safety backup
\* holding the data of before the restore.
C27_RestoreInstallsChosenBackup ==
    ret.op = "restore_backup" =>
        /\ ~ret.raised
        /\ backups # <<>>
        /\ backups[Len(backups)].name = "pre_restore_safety"
        /\ backups[Len(backups)].expenses = ret.before
        /\ \E j \in DOMAIN backups :
              /\ backups[j].id = ret.chosen
              /\ expense_file = backups[j].expenses
              /\ budget_file = backups[j].budgets


\* ------------------------------------------------- specification SpecUndo
\* managers/undo_manager.py. A stack is a list with its top at the end.
\* An UndoAction is its action_type and its description. A handler is
\* code of the caller: it returns True, returns False or raises.
\* max_history is the constructor's argument (50 by default), at least 1.
max_history ==
    2

\* The stack left as it is
keep(stack) ==
    stack

\* list.clear()
clear(stack) ==
    <<>>

\* The action is not appended
drop_action(stack, action) ==
    stack

\* The action that was popped is put back: stack.append(action)
put_back(stack, action) ==
    Append(stack, action)

RECURSIVE limit_history(_)
\* The newest actions are popped: pop() for pop(0)
limit_history_pop_last(stack) ==
    IF Len(stack) > max_history THEN SubSeq(stack, 1, max_history) ELSE stack

\* while len(self._undo_stack) > self.max_history: self._undo_stack.pop(0)
limit_history(stack) ==
    IF Len(stack) > max_history THEN limit_history(Tail(stack)) ELSE stack

UndoInit ==
    /\ _undo_stack = <<>>
    /\ _redo_stack = <<>>
    /\ _callbacks = {}
    /\ settings_file = [exists |-> FALSE, valid |-> FALSE, doc |-> {}]
    /\ _settings_cache = <<>>
    /\ backups = <<>>
    /\ ret = NoCall
    /\ evBudget = Budget(1, "Supplies", 0, "monthly", 0, <<80, 95>>, FALSE, 50, 0)
    /\ StoreIdle
    /\ ReportIdle
    /\ SaveIdle

UndoFrame ==
    UNCHANGED <<evBudget, expenses, budgets, nextId, expense_file,
                budget_file, rpExpenses, rpBudgets, disk, pc, settings_file,
                _settings_cache, backups>>

RegisterHandler(action_type) ==
    /\ _callbacks' = _callbacks \cup {action_type}
    /\ ret' = [op |-> "register_handler", value |-> "None"]
    /\ UNCHANGED <<_undo_stack, _redo_stack>>
    /\ UndoFrame

\* record_action; ret tells the action and how many actions left the stacks
RecordAction(action_type, description) ==
    LET action == [action_type |-> action_type, description |-> description]
    IN  /\ _undo_stack' = limit_history(Append(_undo_stack, action))
        /\ _redo_stack' = clear(_redo_stack)
        /\ ret' = [op |-> "record_action", value |-> "None",
                   action |-> action,
                   undo_dropped |-> Len(_undo_stack) + 1 - Len(_undo_stack'),
                   redo_dropped |-> Len(_redo_stack)]
        /\ UNCHANGED _callbacks
        /\ UndoFrame

\* undo(); outcome is what the handler of the action does when called
Undo(outcome) ==
    /\ IF _undo_stack = <<>>
       THEN /\ ret' = [op |-> "undo", value |-> "False"]
            /\ UNCHANGED <<_undo_stack, _redo_stack>>
       ELSE LET action == _undo_stack[Len(_undo_stack)]
                popped == SubSeq(_undo_stack, 1, Len(_undo_stack) - 1)
            IN  IF action.action_type \notin _callbacks
                THEN /\ _undo_stack' = put_back(popped, action)
                     /\ ret' = [op |-> "undo", value |-> "False"]
                     /\ UNCHANGED _redo_stack
                ELSE IF outcome = "True"
                THEN /\ _undo_stack' = popped
                     /\ _redo_stack' = Append(_redo_stack, action)
                     /\ ret' = [op |-> "undo", value |-> "True"]
                ELSE /\ _undo_stack' = put_back(popped, action)
                     /\ ret' = [op |-> "undo", value |-> "False"]
                     /\ UNCHANGED _redo_stack
    /\ UNCHANGED _callbacks
    /\ UndoFrame

Redo(outcome) ==
    /\ IF _redo_stack = <<>>
       THEN /\ ret' = [op |-> "redo", value |-> "False"]
            /\ UNCHANGED <<_undo_stack, _redo_stack>>
       ELSE LET action == _redo_stack[Len(_redo_stack)]
                popped == SubSeq(_redo_stack, 1, Len(_redo_stack) - 1)
            IN  IF action.action_type \notin _callbacks
                THEN /\ _redo_stack' = put_back(popped, action)
                     /\ ret' = [op |-> "redo", value |-> "False"]
                     /\ UNCHANGED _undo_stack
                ELSE IF outcome = "True"
                THEN /\ _redo_stack' = popped
                     /\ _undo_stack' = Append(_undo_stack, action)
                     /\ ret' = [op |-> "redo", value |-> "True"]
                ELSE /\ _redo_stack' = put_back(popped, action)
                     /\ ret' = [op |-> "redo", value |-> "False"]
                     /\ UNCHANGED _undo_stack
    /\ UNCHANGED _callbacks
    /\ UndoFrame

\* clear()
Clear ==
    /\ _undo_stack' = clear(_undo_stack)
    /\ _redo_stack' = clear(_redo_stack)
    /\ ret' = [op |-> "clear", value |-> "None"]
    /\ UNCHANGED _callbacks
    /\ UndoFrame

UndoNext ==
    \/ \E action_type \in {"add_expense", "delete_expense"} :
          RegisterHandler(action_type)
    \/ \E action_type \in {"add_expense", "delete_expense"},
          description \in {"first", "second"} :
          RecordAction(action_type, description)
    \/ \E outcome \in {"True", "False", "raise"} : Undo(outcome)
    \/ \E outcome \in {"True", "False", "raise"} : Redo(outcome)
    \/ Clear

SpecUndo ==
    UndoInit /\ [][UndoNext]_vars

\* -------------------------------------------------- claims under SpecUndo
\* C28: a failed undo or redo changes nothing: when undo() (redo())
\* returns False, both stacks hold the same actions in the same order as
\* before the call; a successful undo moves exactly the top action of the
\* undo stack to the top of the redo stack, a successful redo moves it back.
C28_FailedUndoChangesNothing ==
    [][/\ (ret'.op \in {"undo", "redo"} /\ ret'.value = "False")
            => /\ _undo_stack' = _undo_stack
               /\ _redo_stack' = _redo_stack
       /\ (ret'.op = "undo" /\ ret'.value = "True")
            => /\ _undo_stack # <<>>
               /\ _undo_stack' = SubSeq(_undo_stack, 1, Len(_undo_stack) - 1)
               /\ _redo_stack' =
                      Append(_redo_stack, _undo_stack[Len(_undo_stack)])
       /\ (ret'.op = "redo" /\ ret'.value = "True")
            => /\ _redo_stack # <<>>
               /\ _redo_stack' = SubSeq(_redo_stack, 1, Len(_redo_stack) - 1)
               /\ _undo_stack' =
                      Append(_undo_stack, _redo_stack[Len(_redo_stack)])]_vars

\* An undo failed although there were two actions to undo and a handler
\* for the top one: the handler did not succeed.
C28_Witness ==
    /\ ret.op = "undo"
    /\ ret.value = "False"
    /\ Len(_undo_stack) = 2
    /\ _undo_stack[1] # _undo_stack[2]
    /\ _undo_stack[2].action_type \in _callbacks

\* C29: recording a new action invalidates redo: after every record_action
\* the redo stack is empty, and redo() returns False until a later undo()
\* succeeds: an empty redo stack gets an action only by a successful undo.
C29_RecordInvalidatesRedo ==
    [][/\ ret'.op = "record_action" => _redo_stack' = <<>>
       /\ (_redo_stack = <<>> /\ ret'.op = "redo") => ret'.value = "False"
       /\ (_redo_stack = <<>> /\ _redo_stack' # <<>>)
            => (ret'.op = "undo" /\ ret'.value = "True")]_vars

\* An action was recorded while an undone action was waiting for redo.
C29_Witness ==
    /\ ret.op = "record_action"
    /\ ret.redo_dropped > 0
    /\ _redo_stack = <<>>

\* C30: after any sequence of record_action, undo, redo and clear the undo
\* stack never holds more than max_history actions, and neither do the
\* undo stack and the redo stack together; a record_action that exceeds
\* the limit drops the oldest actions and keeps the new action on top.
C30_HistoryIsBounded ==
    /\ [](/\ Len(_undo_stack) <= max_history
          /\ Len(_undo_stack) + Len(_redo_stack) <= max_history)
    /\ [][ret'.op = "record_action"
            => /\ _undo_stack' # <<>>
               /\ _undo_stack'[Len(_undo_stack')] = ret'.action
               /\ Len(_undo_stack) = max_history
                     => _undo_stack' = Append(Tail(_undo_stack),
                                              ret'.action)]_vars

\* An action was recorded on a full undo stack: the oldest action left.
C30_Witness ==
    /\ ret.op = "record_action"
    /\ ret.undo_dropped = 1
    /\ Len(_undo_stack) = max_history
    /\ _undo_stack[Len(_undo_stack)] = ret.action
    /\ _undo_stack[1] # ret.action

====
